---- MODULE Spec2Model ----
(***************************************************************************)
(* mothergeo: the storage-class factory (mothergeo.db.modeling and         *)
(* mothergeo.db.postgis.geoalchemy) over the schema model                  *)
(* (mothergeo.schemas.modeling), the JSON parser of model documents        *)
(* (mothergeo.schemas.parsing), the collections of feature tables, the     *)
(* Revision and FieldInfo objects and the translations (mothergeo.i18n).   *)
(*                                                                         *)
(* A Python value that may be None is modelled as a sequence of length at  *)
(* most one: None is <<>> and a present value x is <<x>>.                  *)
(***************************************************************************)
EXTENDS Integers, Sequences, FiniteSets, TLC

\* ------------------------------------------------------------------------
\* Bounds of the model
\* ------------------------------------------------------------------------

\* the largest number of FieldInfo objects handed to a relation's constructor
MaxFields == 2

\* the largest number of get / make / _add calls started on one factory
MaxCalls == 3

\* the largest number of add_relation calls made on one collection
MaxAdds == 2

\* ------------------------------------------------------------------------
\* Optional values
\* ------------------------------------------------------------------------

None == <<>>

Some(x) == <<x>>

IsNone(o) == o = <<>>

Val(o) == o[1]

\* ------------------------------------------------------------------------
\* Vocabulary
\* ------------------------------------------------------------------------

DataType == {"UNKNOWN", "TEXT", "UUID", "INT", "FLOAT", "DATETIME"}

GeometryType == {"UNKNOWN", "POINT", "POLYLINE", "POLYGON"}

DEFAULT_SRID == 3857

text_length == 150

\* ------------------------------------------------------------------------
\* Input domains
\* ------------------------------------------------------------------------

\* field names; "geom" is also the name the feature-table factory gives its
\* geometry column
FieldNames == {"id", "geom"}

\* str.lower() on the names of the model: the spellings of field names and of
\* relation names that differ from the name in letter case only
Lower(s) ==
    CASE s \in {"ID", "Id"} -> "id"
      [] s \in {"GEOM", "Geom"} -> "geom"
      [] s = "A" -> "a"
      [] s = "B" -> "b"
      [] OTHER -> s

\* a preferences dict is a function from its keys to their values
EmptyDict == [k \in {} |-> 0]

PreferenceValues == {None, Some(EmptyDict), Some([length |-> 200])}

\* FieldInfo objects: the attributes the factory reads.  Preferences vary on
\* TEXT fields (where they are read) and on INT fields (where they are not).
FieldInfos ==
    {f \in [name : FieldNames, data_type : DataType, preferences : PreferenceValues] :
        \/ IsNone(f.preferences)
        \/ f.data_type = "TEXT"
        \/ f.data_type = "INT" /\ f.preferences = Some([length |-> 200])}

RECURSIVE SeqsUpTo(_, _)
SeqsUpTo(S, n) ==
    IF n = 0 THEN {<<>>}
    ELSE LET shorter == SeqsUpTo(S, n - 1)
         IN  shorter \cup {Append(s, x) : s \in {t \in shorter : Len(t) = n - 1}, x \in S}

FieldLists == SeqsUpTo(FieldInfos, MaxFields)

\* what a caller passes as fields: None or a list
FieldArgs == {None} \cup {Some(l) : l \in FieldLists}

Identities == {None, Some("ID"), Some("geom"), Some("missing")}

Srids == {None, Some(4326)}

RelationNames == {"A", "B"}

SchemaNames == {"public", "gis"}

\* ------------------------------------------------------------------------
\* mothergeo.codetools
\* ------------------------------------------------------------------------

\* Dicts.try_get: obj is an optional dict
try_get(obj, key, default) ==
    IF IsNone(obj) THEN [result |-> FALSE, value |-> default]
    ELSE IF key \in DOMAIN Val(obj) THEN [result |-> TRUE, value |-> Val(obj)[key]]
    ELSE [result |-> FALSE, value |-> default]

\* ------------------------------------------------------------------------
\* Outcomes of a call: a returned value or a raised exception
\* ------------------------------------------------------------------------

NoError == [type |-> "", attr |-> ""]

\* an exception of class type; attr is the attribute it carries (data_type,
\* geometry_type, or the key of a KeyError)
Error(type, attr) == [type |-> type, attr |-> attr]

Ok(v) == [ok |-> TRUE, value |-> v, error |-> NoError]

Raise(e) == [ok |-> FALSE, value |-> None, error |-> e]

\* ------------------------------------------------------------------------
\* mothergeo.schemas.modeling: RelationInfo and FeatureTableInfo
\* ------------------------------------------------------------------------

\* CaseInsensitiveDict({str(field.name): field for field in fields}) as the
\* sequence of its values: a later field replaces an earlier one whose name
\* folds to the same key, in the earlier one's position
RECURSIVE FieldIndex(_)
FieldIndex(fields) ==
    IF fields = <<>> THEN <<>>
    ELSE LET n == Len(fields)
             f == fields[n]
             before == FieldIndex(SubSeq(fields, 1, n - 1))
             hit == {i \in 1..Len(before) : Lower(before[i].name) = Lower(f.name)}
         IN  IF hit = {} THEN Append(before, f)
             ELSE [i \in 1..Len(before) |-> IF i \in hit THEN f ELSE before[i]]

\* RelationInfo.__init__: fields None gives an empty index
RelationInfo(name, identity, fields) ==
    [kind |-> "RelationInfo", name |-> name, identity |-> identity,
     fields |-> IF IsNone(fields) THEN <<>> ELSE FieldIndex(Val(fields)),
     geometry_type |-> "", srid |-> None]

\* FeatureTableInfo.__init__
FeatureTableInfo(name, identity, geometry_type, fields, srid) ==
    [RelationInfo(name, identity, fields) EXCEPT
        !.kind = "FeatureTableInfo", !.geometry_type = geometry_type, !.srid = srid]

\* FeatureTableInfo.srid
srid_of(r) == IF ~IsNone(r.srid) THEN Val(r.srid) ELSE DEFAULT_SRID

\* get_field over a plain dict: the name must match letter for letter
get_field_case_sensitive(r, name) ==
    LET hit == {i \in 1..Len(r.fields) : r.fields[i].name = name}
    IN  IF hit = {} THEN Raise(Error("KeyError", name))
        ELSE Ok(r.fields[CHOOSE i \in hit : TRUE])

\* RelationInfo.get_field: self._fields[name], case-insensitive
get_field(r, name) ==
    LET hit == {i \in 1..Len(r.fields) : Lower(r.fields[i].name) = Lower(name)}
    IN  IF hit = {} THEN Raise(Error("KeyError", name))
        ELSE Ok(r.fields[CHOOSE i \in hit : TRUE])

\* RelationInfo.get_identity_field: an optional FieldInfo
get_identity_field(r) ==
    IF ~IsNone(r.identity)
    THEN LET got == get_field(r, Val(r.identity))
         IN  IF got.ok THEN Ok(Some(got.value)) ELSE got
    ELSE Ok(None)

\* the relation-info objects a caller can construct
RelationsNamed(names) ==
    {RelationInfo(n, id, fs) : n \in names, id \in Identities, fs \in FieldArgs}
    \cup {FeatureTableInfo(n, id, g, fs, srid) :
            n \in names, id \in Identities, g \in GeometryType,
            fs \in FieldArgs, srid \in Srids}

\* ------------------------------------------------------------------------
\* mothergeo.schemas.modeling: collections and the model
\* ------------------------------------------------------------------------

\* Python values a sequence can be: the int n, the float unscaled / 10^scale
\* (in lowest terms of the scale), and a str as the sequence of its characters
PyInt(n) == [type |-> "int", chars |-> <<>>, unscaled |-> n, scale |-> 0]

PyFloat(unscaled, scale) ==
    [type |-> "float", chars |-> <<>>, unscaled |-> unscaled, scale |-> scale]

PyStr(chars) == [type |-> "str", chars |-> chars, unscaled |-> 0, scale |-> 0]

\* isinstance(value, numbers.Number)
IsNumber(value) == value.type \in {"int", "float"}

Digits == {"0", "1", "2", "3", "4", "5", "6", "7", "8", "9"}

DigitValue(d) ==
    CASE d = "0" -> 0 [] d = "1" -> 1 [] d = "2" -> 2 [] d = "3" -> 3 [] d = "4" -> 4
      [] d = "5" -> 5 [] d = "6" -> 6 [] d = "7" -> 7 [] d = "8" -> 8 [] d = "9" -> 9

\* the number a run of decimal digits denotes; 0 for the empty run
RECURSIVE DigitsValue(_)
DigitsValue(chars) ==
    IF chars = <<>> THEN 0
    ELSE 10 * DigitsValue(SubSeq(chars, 1, Len(chars) - 1)) + DigitValue(chars[Len(chars)])

\* int(s) of a str without sign, underscore or surrounding space: ValueError
\* unless s is a non-empty run of digits
int(chars) ==
    IF chars # <<>> /\ \A i \in 1..Len(chars) : chars[i] \in Digits
    THEN Ok(PyInt(DigitsValue(chars)))
    ELSE Raise(Error("ValueError", "int"))

\* the float unscaled / 10^scale with no trailing zero in its fraction
RECURSIVE Shortest(_, _)
Shortest(unscaled, scale) ==
    IF scale > 0 /\ unscaled % 10 = 0 THEN Shortest(unscaled \div 10, scale - 1)
    ELSE PyFloat(unscaled, scale)

\* float(s) of a str without sign, exponent, underscore or surrounding space:
\* ValueError unless s is digits with at most one '.' and at least one digit
float(chars) ==
    LET dots == {i \in 1..Len(chars) : chars[i] = "."}
    IN  IF /\ Cardinality(dots) <= 1
           /\ Len(chars) > Cardinality(dots)
           /\ \A i \in (1..Len(chars)) \ dots : chars[i] \in Digits
        THEN IF dots = {} THEN Ok(PyFloat(DigitsValue(chars), 0))
             ELSE LET dot == CHOOSE i \in dots : TRUE
                      whole == SubSeq(chars, 1, dot - 1)
                      fraction == SubSeq(chars, dot + 1, Len(chars))
                  IN  Ok(Shortest(DigitsValue(whole \o fraction), Len(fraction)))
        ELSE Raise(Error("ValueError", "float"))

\* '.' in sequence
HasDot(chars) == \E i \in 1..Len(chars) : chars[i] = "."

\* Revision.__init__ with 'except ValueError: self._sequence = 0'
Revision_defaulting_bad_sequence(title, sequence, author_name, author_email) ==
    LET _sequence ==
            IF IsNone(sequence) THEN Ok(PyInt(0))
            ELSE IF IsNumber(Val(sequence)) THEN Ok(Val(sequence))
            ELSE LET converted == IF HasDot(Val(sequence).chars)
                                  THEN float(Val(sequence).chars)
                                  ELSE int(Val(sequence).chars)
                 IN  IF converted.ok THEN converted ELSE Ok(PyInt(0))
    IN  Ok([title |-> title, sequence |-> _sequence.value,
            author_name |-> author_name, author_email |-> author_email])

\* Revision.__init__: a None sequence becomes 0, a number is kept, a str is
\* converted by float when it holds a '.' and by int otherwise; the except
\* clause catches TypeError only, so the ValueError of a str that is not a
\* number passes.  The outcome is the Revision object or the exception.
Revision(title, sequence, author_name, author_email) ==
    LET _sequence ==
            IF IsNone(sequence) THEN Ok(PyInt(0))
            ELSE IF IsNumber(Val(sequence)) THEN Ok(Val(sequence))
            ELSE LET converted == IF HasDot(Val(sequence).chars)
                                  THEN float(Val(sequence).chars)
                                  ELSE int(Val(sequence).chars)
                 IN  IF ~converted.ok /\ converted.error.type = "TypeError"
                     THEN Raise(Error("TypeError", "sequence"))
                     ELSE converted
    IN  IF ~_sequence.ok THEN Raise(_sequence.error)
        ELSE Ok([title |-> title, sequence |-> _sequence.value,
                 author_name |-> author_name, author_email |-> author_email])

\* CaseInsensitiveDict({r.name: r for r in relations}) as the sequence of its
\* values
RelationIndex(relations) == FieldIndex(relations)

\* FeatureTableInfoCollection.__init__ over _RelationInfoCollection.__init__:
\* common_fields and feature_tables are None or a list; a list is indexed by
\* a CaseInsensitiveDict, None leaves a plain (case-sensitive) dict
FeatureTableInfoCollection(common_fields, feature_tables, default_identity, common_srid) ==
    [common_fields |-> IF IsNone(common_fields) THEN <<>>
                       ELSE FieldIndex(Val(common_fields)),
     relations |-> IF IsNone(feature_tables) THEN <<>>
                   ELSE RelationIndex(Val(feature_tables)),
     insensitive |-> ~IsNone(feature_tables),
     default_identity |-> default_identity,
     common_srid |-> common_srid]

\* FeatureTableInfoCollection.common_srid
common_srid_of(collection) ==
    IF ~IsNone(collection.common_srid) THEN Val(collection.common_srid) ELSE DEFAULT_SRID

\* the key a name has in the collection's _relations dict
RelationKey(collection, name) == IF collection.insensitive THEN Lower(name) ELSE name

\* 'name in self._relations'
HasRelation(collection, name) ==
    \E i \in 1..Len(collection.relations) :
        RelationKey(collection, collection.relations[i].name) = RelationKey(collection, name)

\* _RelationInfoCollection.get_relation
get_relation(collection, name) ==
    IF ~HasRelation(collection, name) THEN Raise(Error("KeyError", name))
    ELSE Ok(collection.relations[
                CHOOSE i \in 1..Len(collection.relations) :
                    RelationKey(collection, collection.relations[i].name)
                        = RelationKey(collection, name)])

\* SpatialInfo.__init__
SpatialInfo(common_srid, default_identity, common_fields, feature_tables) ==
    [common_srid |-> common_srid, default_identity |-> default_identity,
     common_fields |-> common_fields, feature_tables |-> feature_tables]

\* ModelInfo.__init__
ModelInfo(name, revision, spatial_info) ==
    [name |-> name, revision |-> revision, spatial_info |-> spatial_info]

\* ------------------------------------------------------------------------
\* mothergeo.schemas.parsing
\* ------------------------------------------------------------------------

\* A JSON object is a function from its keys to their values.  A value the
\* code may find to be null is an optional value (None is null).
Without(obj, key) == [k \in DOMAIN obj \ {key} |-> obj[k]]

With(obj, key, value) ==
    [k \in DOMAIN obj \cup {key} |-> IF k = key THEN value ELSE obj[k]]

\* A Python object by its type: a str, or the TryGetResult named tuple
Str(x) == [type |-> "str", result |-> FALSE, value |-> x]

TryGetResult(r) == [type |-> "TryGetResult", result |-> r.result, value |-> r.value]

\* A string by what json.loads and open make of it: the text of a JSON value
\* (null, or an object), or a text that is not JSON and is named by path
JsonText(value) == [json |-> TRUE, value |-> value, path |-> ""]

PathText(path) == [json |-> FALSE, value |-> None, path |-> path]

\* json.loads: JSONDecodeError is a ValueError
json_loads(text) ==
    IF text.json THEN Ok(text.value) ELSE Raise(Error("ValueError", "JSONDecodeError"))

\* a file of the file system, and a path that names none
File(readable, content) == [exists |-> TRUE, readable |-> readable, content |-> content]

NoFile == [exists |-> FALSE, readable |-> FALSE, content |-> PathText("")]

\* 'with open(s) as json_file: parsed = json.load(json_file)'
open_and_load(text, fs) ==
    IF text.path \notin DOMAIN fs \/ ~fs[text.path].exists
    THEN Raise(Error("FileNotFoundError", text.path))
    ELSE IF ~fs[text.path].readable THEN Raise(Error("PermissionError", text.path))
    ELSE json_loads(fs[text.path].content)

\* the decorator: KeyError and FileNotFoundError become ParseException, any
\* other exception passes
throws_parse_exception(outcome) ==
    IF outcome.ok THEN outcome
    ELSE IF outcome.error.type = "KeyError" THEN Raise(Error("ParseException", "Key error."))
    ELSE IF outcome.error.type = "FileNotFoundError"
         THEN Raise(Error("ParseException", "File not found."))
    ELSE outcome

\* the first of the keys, in the order the code subscripts them, that the
\* object lacks ("" when it has them all)
RECURSIVE FirstMissing(_, _)
FirstMissing(obj, keys) ==
    IF keys = <<>> THEN ""
    ELSE IF Head(keys) \notin DOMAIN obj THEN Head(keys)
    ELSE FirstMissing(obj, Tail(keys))

\* the member names of the enumerations as documents spell them
Upper(s) ==
    CASE s = "int" -> "INT"
      [] s = "text" -> "TEXT"
      [] s = "Polygon" -> "POLYGON"
      [] s = "Point" -> "POINT"
      [] s = "required" -> "REQUIRED"
      [] OTHER -> s

\* Enums.from_name: a case-insensitive lookup of the member name
from_name(enum_cls, name) ==
    IF Upper(name) \in enum_cls THEN Ok(Upper(name)) ELSE Raise(Error("KeyError", name))

\* ------------------------------------------------------------------------
\* mothergeo.i18n
\* ------------------------------------------------------------------------

\* I18nPack.__init__: data is the dict of the UserDict, a copy of initialdata;
\* translations is self.__translations, locale -> I18nPack
I18nPack(initialdata) ==
    [data |-> IF ~IsNone(initialdata) THEN Val(initialdata) ELSE EmptyDict,
     translations |-> EmptyDict]

\* add_translation that writes the translation of a locale to the defaults too
add_translation_writing_defaults(self, key, translation, locale) ==
    IF IsNone(locale)
    THEN [self EXCEPT !.data = With(@, key, translation)]
    ELSE LET _pack == IF Val(locale) \in DOMAIN self.translations
                      THEN self.translations[Val(locale)]
                      ELSE I18nPack(None)
         IN  [self EXCEPT !.data = With(@, key, translation),
                          !.translations =
                 With(@, Val(locale), [_pack EXCEPT !.data = With(@, key, translation)])]

\* I18nPack.add_translation; the pack after the call
add_translation(self, key, translation, locale) ==
    IF IsNone(locale)
    THEN [self EXCEPT !.data = With(@, key, translation)]
    ELSE LET _pack == IF Val(locale) \in DOMAIN self.translations
                      THEN self.translations[Val(locale)]
                      ELSE I18nPack(None)
         IN  [self EXCEPT !.translations =
                 With(@, Val(locale), [_pack EXCEPT !.data = With(@, key, translation)])]

\* I18nPack.set_translations; translations is a dict, or None for an argument
\* that is not a dict.  The outcome holds the pack after the call.
set_translations(self, translations, locale) ==
    IF IsNone(translations) THEN Raise(Error("ValueError", "translations"))
    ELSE IF IsNone(locale) \/ locale = Some("default")
    THEN Ok([self EXCEPT !.data = Val(translations)])
    ELSE Ok([self EXCEPT !.translations = With(@, Val(locale), I18nPack(translations))])

\* ------------------------------------------------------------------------
\* mothergeo.schemas.modeling: FieldInfo and its parts
\* ------------------------------------------------------------------------

Requirement == {"NONE", "REQUESTED", "REQUIRED"}

\* a Python list, and a str where a list is expected
PyList(items) == [type |-> "list", items |-> items]

PyScalar(x) == [type |-> "str", items |-> <<x>>]

\* Source.__init__: requirement is None or the name of a member, analogs is
\* None, a list or a single value
Source(requirement, analogs) ==
    LET _requirement == IF ~IsNone(requirement)
                        THEN from_name(Requirement, Val(requirement))
                        ELSE Ok("")
    IN  IF ~_requirement.ok THEN Raise(_requirement.error)
        ELSE Ok([requirement |-> IF ~IsNone(requirement) THEN Some(_requirement.value)
                                 ELSE None,
                 analogs |-> IF IsNone(analogs) THEN <<>>
                             ELSE IF Val(analogs).type = "list" THEN Val(analogs).items
                             ELSE Val(analogs).items])

\* Target.__init__
Target(calculated, guaranteed) == [calculated |-> calculated, guaranteed |-> guaranteed]

\* Usage.__init__
Usage(search, display) == [search |-> search, display |-> display]

\* NenaSpec.__init__: required is None or a bool
NenaSpec(analog, required) == [analog |-> analog, required |-> required]

\* FieldInfo.__init__: the data type is looked up by name, usage and nena
\* default to Usage() and NenaSpec(), a domain becomes a set
FieldInfo(name, data_type, source, target, i18n, unique, preferences, usage, nena, domain) ==
    LET _data_type == from_name(DataType, data_type)
    IN  IF ~_data_type.ok THEN Raise(_data_type.error)
        ELSE Ok([name |-> name, unique |-> unique, data_type |-> _data_type.value,
                 source |-> source, target |-> target, i18n |-> i18n,
                 preferences |-> preferences,
                 usage |-> IF ~IsNone(usage) THEN Val(usage) ELSE Usage(FALSE, FALSE),
                 nena |-> IF ~IsNone(nena) THEN Val(nena) ELSE NenaSpec(None, None),
                 domain |-> IF ~IsNone(domain)
                            THEN Some({Val(domain)[i] : i \in 1..Len(Val(domain))})
                            ELSE None])

\* ------------------------------------------------------------------------
\* mothergeo.schemas.parsing: the objects of a document
\* ------------------------------------------------------------------------

\* _json_2_revision
_json_2_revision(jsobj) ==
    Revision(try_get(Some(jsobj), "title", None).value,
             try_get(Some(jsobj), "sequence", None).value,
             try_get(Some(jsobj), "authorName", None).value,
             try_get(Some(jsobj), "authorEmail", None).value)

\* _json_2_source: the Source object or the exception of its constructor
_json_2_source(jsobj) ==
    Source(try_get(Some(jsobj), "requirement", None).value,
           try_get(Some(jsobj), "analogs", Some(PyList(<<>>))).value)

\* _json_2_target
_json_2_target(jsobj) ==
    Target(try_get(Some(jsobj), "calculated", FALSE).value,
           try_get(Some(jsobj), "guaranteed", FALSE).value)

\* _json_2_usage
_json_2_usage(jsobj) ==
    Usage(try_get(Some(jsobj), "search", FALSE).value,
          try_get(Some(jsobj), "display", FALSE).value)

\* _json_2_nena_spec that leaves an absent 'required' to NenaSpec's default
json_2_nena_spec_without_default(jsobj) ==
    NenaSpec(try_get(Some(jsobj), "analog", None).value,
             IF "required" \in DOMAIN jsobj THEN Some(jsobj.required) ELSE None)

\* _json_2_nena_spec
_json_2_nena_spec(jsobj) ==
    NenaSpec(try_get(Some(jsobj), "analog", None).value,
             Some(try_get(Some(jsobj), "required", FALSE).value))

\* _json_2_i18n: the pack of the 'default' translations after set_translations
\* for every other key of the object
_json_2_i18n(jsobj) ==
    LET defaults == IF "default" \in DOMAIN jsobj THEN jsobj.default ELSE EmptyDict
    IN  [I18nPack(Some(defaults)) EXCEPT
            !.translations = [locale \in DOMAIN jsobj \ {"default"} |->
                                 I18nPack(Some(jsobj[locale]))]]

\* the function _json_2_field_info decorates: the subscripts and calls in code
\* order, then FieldInfo.__init__
_json_2_field_info_f(jsobj) ==
    LET missing == FirstMissing(jsobj, <<"name", "type", "source">>)
    IN  IF missing # "" THEN Raise(Error("KeyError", missing))
        ELSE LET source == _json_2_source(jsobj.source)
             IN  IF ~source.ok THEN Raise(source.error)
                 ELSE IF "target" \notin DOMAIN jsobj THEN Raise(Error("KeyError", "target"))
                 ELSE IF "i18n" \notin DOMAIN jsobj THEN Raise(Error("KeyError", "i18n"))
                 ELSE FieldInfo(jsobj.name, jsobj.type, source.value,
                                _json_2_target(jsobj.target), _json_2_i18n(jsobj.i18n),
                                try_get(Some(jsobj), "unique", FALSE).value,
                                try_get(Some(jsobj), "preferences", None).value,
                                Some(_json_2_usage(
                                    try_get(Some(jsobj), "usage", EmptyDict).value)),
                                Some(_json_2_nena_spec(
                                    try_get(Some(jsobj), "nena", EmptyDict).value)),
                                try_get(Some(jsobj), "domain", None).value)

_json_2_field_info(jsobj) == throws_parse_exception(_json_2_field_info_f(jsobj))

\* a list comprehension, item by item: the first call that raises ends it,
\* otherwise the item's value is put before the values of the rest
Comprehension(first, rest) ==
    IF ~first.ok THEN first
    ELSE IF ~rest.ok THEN rest
    ELSE Ok(<<first.value>> \o rest.value)

\* [_json_2_field_info(fij) for fij in list]
RECURSIVE _json_2_field_infos(_)
_json_2_field_infos(list) ==
    IF list = <<>> THEN Ok(<<>>)
    ELSE Comprehension(_json_2_field_info(Head(list)), _json_2_field_infos(Tail(list)))

\* _json_2_feature_table_info
_json_2_feature_table_info(jsobj, common_fields, default_identity, default_srid) ==
    IF "name" \notin DOMAIN jsobj THEN Raise(Error("KeyError", "name"))
    ELSE IF "geometryType" \notin DOMAIN jsobj THEN Raise(Error("KeyError", "geometryType"))
    ELSE LET geometry_type == from_name(GeometryType, jsobj.geometryType)
         IN  IF ~geometry_type.ok THEN geometry_type
             ELSE LET missing == FirstMissing(jsobj, <<"nena", "i18n", "fields">>)
                  IN  IF missing # "" THEN Raise(Error("KeyError", missing))
                      ELSE LET own == _json_2_field_infos(jsobj.fields)
                           IN  IF ~own.ok THEN own
                               ELSE LET fields == own.value \o common_fields
                                        identity == IF "identity" \in DOMAIN jsobj
                                                    THEN default_identity
                                                    ELSE default_identity
                                        srid == IF "srid" \in DOMAIN jsobj
                                                THEN jsobj.srid ELSE default_srid
                                    IN  Ok(FeatureTableInfo(jsobj.name, Some(identity),
                                                            geometry_type.value,
                                                            Some(fields), srid))

\* [_json_2_feature_table_info(...) for ftj in list]
RECURSIVE _json_2_feature_table_infos(_, _, _, _)
_json_2_feature_table_infos(list, common_fields, default_identity, default_srid) ==
    IF list = <<>> THEN Ok(<<>>)
    ELSE Comprehension(_json_2_feature_table_info(Head(list), common_fields,
                                                  default_identity, default_srid),
                       _json_2_feature_table_infos(Tail(list), common_fields,
                                                   default_identity, default_srid))

\* _json_2_feature_table_info_collection
_json_2_feature_table_info_collection(jsobj) ==
    IF "defaultIdentity" \notin DOMAIN jsobj THEN Raise(Error("KeyError", "defaultIdentity"))
    ELSE LET default_identity == jsobj.defaultIdentity
             common_srid == try_get(Some(jsobj), "commonSrid", Some(DEFAULT_SRID)).value
         IN  IF "commonFields" \notin DOMAIN jsobj
             THEN Raise(Error("KeyError", "commonFields"))
             ELSE LET common_fields == _json_2_field_infos(jsobj.commonFields)
                  IN  IF ~common_fields.ok THEN common_fields
                      ELSE IF "featureTables" \notin DOMAIN jsobj
                      THEN Raise(Error("KeyError", "featureTables"))
                      ELSE LET feature_tables ==
                                   _json_2_feature_table_infos(
                                       jsobj.featureTables, common_fields.value,
                                       default_identity, common_srid)
                           IN  IF ~feature_tables.ok THEN feature_tables
                               ELSE Ok(FeatureTableInfoCollection(
                                           Some(common_fields.value),
                                           Some(feature_tables.value),
                                           default_identity, common_srid))

\* _json_2_spatial_info
_json_2_spatial_info(jsobj) ==
    IF "commonSrid" \notin DOMAIN jsobj THEN Raise(Error("KeyError", "commonSrid"))
    ELSE IF "commonFields" \notin DOMAIN jsobj THEN Raise(Error("KeyError", "commonFields"))
    ELSE LET common_fields == _json_2_field_infos(jsobj.commonFields)
         IN  IF ~common_fields.ok THEN common_fields
             ELSE IF "defaultIdentity" \notin DOMAIN jsobj
             THEN Raise(Error("KeyError", "defaultIdentity"))
             ELSE LET feature_tables == _json_2_feature_table_info_collection(jsobj)
                  IN  IF ~feature_tables.ok THEN feature_tables
                      ELSE Ok(SpatialInfo(jsobj.commonSrid, jsobj.defaultIdentity,
                                          common_fields.value, feature_tables.value))

\* the function parse decorates; a returned model is Some(ModelInfo)
parse_f(text, fs) ==
    LET direct == json_loads(text)
        first == IF direct.ok THEN direct.value ELSE None
        loaded == IF IsNone(first) THEN open_and_load(text, fs) ELSE Ok(first)
    IN  IF ~loaded.ok THEN loaded
        ELSE LET parsed == loaded.value
                 name == try_get(parsed, "name", "Nameless Model")
             IN  IF IsNone(parsed) THEN Raise(Error("TypeError", "revision"))
                 ELSE IF "revision" \notin DOMAIN Val(parsed)
                 THEN Raise(Error("KeyError", "revision"))
                 ELSE LET _revision == _json_2_revision(Val(parsed).revision)
                      IN  IF ~_revision.ok THEN Raise(_revision.error)
                          ELSE IF "spatial" \notin DOMAIN Val(parsed)
                          THEN Raise(Error("KeyError", "spatial"))
                          ELSE LET spatial_info == _json_2_spatial_info(Val(parsed).spatial)
                               IN  IF ~spatial_info.ok THEN spatial_info
                                   ELSE Ok(Some(ModelInfo(TryGetResult(name),
                                                          _revision.value,
                                                          spatial_info.value)))

\* JsonModelInfoParser.parse
parse(text, fs) == throws_parse_exception(parse_f(text, fs))

\* ------------------------------------------------------------------------
\* mothergeo.db.postgis.geoalchemy: columns
\* ------------------------------------------------------------------------

geometry_column_name == "geom"

\* sqlalchemy.Column(name, type, primary_key=...): length is String's length,
\* geometry_type and srid are Geometry's arguments (srid None: not passed)
Column(name, type, length, primary_key) ==
    [name |-> name, type |-> type, length |-> length, primary_key |-> primary_key,
     geometry_type |-> "", srid |-> None]

GeometryColumn(name, geometry_type) ==
    [name |-> name, type |-> "Geometry", length |-> None, primary_key |-> FALSE,
     geometry_type |-> geometry_type, srid |-> None]

\* _field_info_to_sqlalchemy_column with the length preference left unread
field_column_of_default_length(field_info, identity) ==
    LET column_name == field_info.name
        data_type == field_info.data_type
    IN  IF data_type = "TEXT"
        THEN Ok(Column(column_name, "String", Some(text_length), identity))
        ELSE IF data_type = "INT" THEN Ok(Column(column_name, "Integer", None, identity))
        ELSE IF data_type = "FLOAT" THEN Ok(Column(column_name, "Float", None, identity))
        ELSE IF data_type = "DATETIME" THEN Ok(Column(column_name, "DateTime", None, identity))
        ELSE Raise(Error("UnsupportedDataTypeError", data_type))

\* _field_info_to_sqlalchemy_column with a UUID field stored as text
field_column_of_uuid_as_text(field_info, identity) ==
    LET column_name == field_info.name
        preferences == IF ~IsNone(field_info.preferences)
                       THEN field_info.preferences ELSE Some(EmptyDict)
        data_type == field_info.data_type
    IN  IF data_type = "TEXT"
        THEN LET length == try_get(preferences, "length", text_length).value
             IN  Ok(Column(column_name, "String", Some(length), identity))
        ELSE IF data_type = "UUID" THEN Ok(Column(column_name, "String", Some(36), identity))
        ELSE IF data_type = "INT" THEN Ok(Column(column_name, "Integer", None, identity))
        ELSE IF data_type = "FLOAT" THEN Ok(Column(column_name, "Float", None, identity))
        ELSE IF data_type = "DATETIME" THEN Ok(Column(column_name, "DateTime", None, identity))
        ELSE Raise(Error("UnsupportedDataTypeError", data_type))

\* GeoAlchemyEntityClassFactory._field_info_to_sqlalchemy_column
_field_info_to_sqlalchemy_column(field_info, identity) ==
    LET column_name == field_info.name
        preferences == IF ~IsNone(field_info.preferences)
                       THEN field_info.preferences ELSE Some(EmptyDict)
        data_type == field_info.data_type
    IN  IF data_type = "TEXT"
        THEN LET length == try_get(preferences, "length", text_length).value
             IN  Ok(Column(column_name, "String", Some(length), identity))
        ELSE IF data_type = "INT" THEN Ok(Column(column_name, "Integer", None, identity))
        ELSE IF data_type = "FLOAT" THEN Ok(Column(column_name, "Float", None, identity))
        ELSE IF data_type = "DATETIME" THEN Ok(Column(column_name, "DateTime", None, identity))
        ELSE Raise(Error("UnsupportedDataTypeError", data_type))

\* _geometry_type_to_sqlalchemy_column with a generic column for the other
\* geometry types
geometry_column_of_any_type(geometry_type) ==
    IF geometry_type = "POINT" THEN Ok(GeometryColumn(geometry_column_name, "POINT"))
    ELSE IF geometry_type = "POLYLINE" THEN Ok(GeometryColumn(geometry_column_name, "POLYLINE"))
    ELSE IF geometry_type = "POLYGON" THEN Ok(GeometryColumn(geometry_column_name, "POLYGON"))
    ELSE Ok(GeometryColumn(geometry_column_name, "GEOMETRY"))

\* GeoAlchemyFeatureTableClassFactory._geometry_type_to_sqlalchemy_column
_geometry_type_to_sqlalchemy_column(geometry_type) ==
    IF geometry_type = "POINT" THEN Ok(GeometryColumn(geometry_column_name, "POINT"))
    ELSE IF geometry_type = "POLYLINE" THEN Ok(GeometryColumn(geometry_column_name, "POLYLINE"))
    ELSE IF geometry_type = "POLYGON" THEN Ok(GeometryColumn(geometry_column_name, "POLYGON"))
    ELSE Raise(Error("UnsupportedGeometryException", geometry_type))

\* ------------------------------------------------------------------------
\* Python dicts with string keys, as the sequence of their items
\* ------------------------------------------------------------------------

DictKeys(d) == {d[i].key : i \in 1..Len(d)}

DictGet(d, k) == d[CHOOSE i \in 1..Len(d) : d[i].key = k].value

\* d[k] = v: replaces the value of an existing key, else adds an item
DictSet(d, k, v) ==
    IF k \in DictKeys(d)
    THEN [i \in 1..Len(d) |-> IF d[i].key = k THEN [key |-> k, value |-> v] ELSE d[i]]
    ELSE Append(d, [key |-> k, value |-> v])

\* ------------------------------------------------------------------------
\* mothergeo.db.postgis.geoalchemy: the layout of a new type
\* ------------------------------------------------------------------------

\* the dict comprehension of GeoAlchemyEntityClassFactory._define_fields from
\* the i-th field on; props holds the items built so far
RECURSIVE FieldProps(_, _, _)
FieldProps(relation_info, i, props) ==
    IF i > Len(relation_info.fields) THEN Ok(props)
    ELSE LET field == relation_info.fields[i]
             identity_field == get_identity_field(relation_info)
         IN  IF ~identity_field.ok THEN Raise(identity_field.error)
             ELSE LET column == _field_info_to_sqlalchemy_column(
                                    field, identity_field.value = Some(field))
                  IN  IF ~column.ok THEN Raise(column.error)
                      ELSE FieldProps(relation_info, i + 1,
                                      DictSet(props, field.name, column.value))

\* GeoAlchemyEntityClassFactory._define_fields
Entity_define_fields(relation_info) == FieldProps(relation_info, 1, <<>>)

\* GeoAlchemyFeatureTableClassFactory._define_fields; a plain RelationInfo has
\* no geometry_type attribute
FeatureTable_define_fields(relation_info) ==
    LET props == Entity_define_fields(relation_info)
    IN  IF ~props.ok THEN props
        ELSE IF relation_info.kind # "FeatureTableInfo"
        THEN Raise(Error("AttributeError", "geometry_type"))
        ELSE LET column == _geometry_type_to_sqlalchemy_column(relation_info.geometry_type)
             IN  IF ~column.ok THEN Raise(column.error)
                 ELSE Ok(DictSet(props.value, "geom", column.value))

\* self._define_fields, by the class of the factory
_define_fields(factory, relation_info) ==
    IF factory = "GeoAlchemyFeatureTableClassFactory"
    THEN FeatureTable_define_fields(relation_info)
    ELSE Entity_define_fields(relation_info)

\* self.base_type
base_type(factory) ==
    IF factory = "GeoAlchemyFeatureTableClassFactory"
    THEN "GeoAlchemyFeature" ELSE "GeoAlchemyEntity"

\* ------------------------------------------------------------------------
\* State
\* ------------------------------------------------------------------------

VARIABLES
    factory,      \* the class of the factory object under study
    store_schema, \* GeoAlchemyDataStore._schema of the factory's data store
    classes,      \* EntityClassFactory._classes: name -> manufactured class
    metadata,     \* the tables defined on Base (Base.metadata): <<schema, name>>
    requests,     \* the table-creation requests the engine has received
    next_id,      \* the number of wrapper classes created so far
    made,         \* the classes make has returned to a caller
    calls,        \* per caller: the call it is in, or its last call
    ncalls,       \* the number of calls started
    data_store,   \* the factory's _data_store: None while no factory exists
    constructed,  \* the last call of a factory constructor: None before it
    parse_arg,    \* the string handed to JsonModelInfoParser.parse
    files,        \* the file system: path -> file
    parse_outcome, \* what parse returned or raised: None before the call
    collection,   \* a FeatureTableInfoCollection
    add_outcome,  \* the last add_relation call on it: None before any
    nadds,        \* the number of add_relation calls made
    sequence_arg, \* the sequence argument handed to Revision
    revision,     \* what Revision(...) returned or raised: None before the call
    pack,         \* an I18nPack object
    current_locale, \* mothergeo.i18n.current_locale
    last_op,      \* the last operation on the pack and what it returned
    nops,         \* the number of add_translation and set_translations calls made
    field_json,   \* the JSON object handed to _json_2_field_info
    field_info    \* what _json_2_field_info returned or raised: None before

factory_vars ==
    <<factory, store_schema, classes, metadata, requests, next_id, made, calls, ncalls>>

construction_vars == <<data_store, constructed>>

parsing_vars == <<parse_arg, files, parse_outcome>>

collection_vars == <<collection, add_outcome, nadds>>

revision_vars == <<sequence_arg, revision>>

i18n_vars == <<pack, current_locale, last_op, nops>>

field_vars == <<field_json, field_info>>

unit_vars == <<revision_vars, i18n_vars, field_vars>>

vars == <<factory_vars, construction_vars, parsing_vars, collection_vars, unit_vars>>

\* ------------------------------------------------------------------------
\* mothergeo.i18n: lookups under the current locale
\* ------------------------------------------------------------------------

\* __getattr__ without the fall back to the defaults
getattr_without_fallback(self, name) ==
    LET _pack == IF ~IsNone(current_locale) /\ Val(current_locale) \in DOMAIN self.translations
                 THEN self.translations[Val(current_locale)]
                 ELSE self
    IN  IF name \in DOMAIN _pack.data THEN Some(_pack.data[name])
        ELSE None

\* I18nPack.__getattr__, for a name that is no attribute of the object: the
\* value found, or None
__getattr__(self, name) ==
    LET _pack == IF ~IsNone(current_locale) /\ Val(current_locale) \in DOMAIN self.translations
                 THEN self.translations[Val(current_locale)]
                 ELSE self
    IN  IF name \in DOMAIN _pack.data THEN Some(_pack.data[name])
        ELSE IF _pack # self /\ name \in DOMAIN self.data THEN Some(self.data[name])
        ELSE None

\* no factory object exists (yet)
NoFactory == ""

\* a GeoAlchemyDataStore object, by the attribute the factory reads
GeoAlchemyDataStore(schema) == [schema |-> schema]

\* a call cls(data_store) and how it ended
Construction(cls, store, ok, error) ==
    [cls |-> cls, data_store |-> store, ok |-> ok, error |-> error]

FactoryClasses == {"GeoAlchemyEntityClassFactory", "GeoAlchemyFeatureTableClassFactory"}

\* what a caller passes as schema: None, or a name ('public' when omitted)
SchemaArgs == {None, Some("public")}

\* the relation-info objects callers hold in the factory's state machine: with
\* a mappable and with an unmappable field, with and without geometry
SampleFields ==
    {Some(<<[name |-> "id", data_type |-> t, preferences |-> None]>>) : t \in {"INT", "UUID"}}

SampleRelations ==
    {RelationInfo(n, Some("ID"), fs) : n \in RelationNames, fs \in SampleFields}
    \cup {FeatureTableInfo(n, Some("ID"), g, Some(<<[name |-> "id", data_type |-> "INT",
                                                     preferences |-> None]>>), None) :
            n \in RelationNames, g \in {"POINT", "UNKNOWN"}}

\* "GeoAlchemyDynamic_{relation_name}".format(...)
ClassName(relation_name) == "GeoAlchemyDynamic_" \o relation_name

\* the arguments of get: a relation-info object or a string
AsRelation(r) == [tag |-> "relation", relation |-> Some(r), name |-> ""]

AsName(s) == [tag |-> "str", relation |-> None, name |-> s]

GetArgs ==
    {AsRelation(r) : r \in SampleRelations}
    \cup {AsName(n) : n \in RelationNames}
    \cup {AsName(ClassName(n)) : n \in RelationNames}

Idle ==
    [pc |-> "idle", op |-> "", what |-> AsName(""), relation |-> None, schema |-> None,
     via_get |-> FALSE, defined |-> FALSE, props |-> <<>>, table_schema |-> "",
     made |-> None, result |-> None, error |-> NoError, raised_in |-> "",
     requests |-> 0, overlapped |-> FALSE]

InFlight(call) == call.pc \notin {"idle", "done"}

\* caller c starts the call given; overlapped marks the calls that were in
\* flight together with a call of another caller
Begin(c, call) ==
    [d \in DOMAIN calls |->
        IF d = c
        THEN [call EXCEPT !.overlapped = \E e \in DOMAIN calls \ {c} : InFlight(calls[e])]
        ELSE IF InFlight(calls[d]) /\ InFlight(call)
             THEN [calls[d] EXCEPT !.overlapped = TRUE]
             ELSE calls[d]]

\* the call returns value to its caller
Return(call, value) == [call EXCEPT !.pc = "done", !.result = Some(value)]

\* the call ends with an exception raised in the named step
Raised(call, where, e) ==
    [call EXCEPT !.pc = "done", !.error = e, !.raised_in = where]

\* 'type(what) is RelationInfo': false for a str and for a FeatureTableInfo
IsRelationInfo(what) == what.tag = "relation" /\ Val(what.relation).kind = "RelationInfo"

\* 'key in self._classes' for key = what.name if type(what) is RelationInfo
\* else what; the keys of _classes are strings, so a FeatureTableInfo object
\* used as the key is never among them
KeyCached(what, cache) ==
    IF IsRelationInfo(what) THEN Val(what.relation).name \in DOMAIN cache
    ELSE IF what.tag = "str" THEN what.name \in DOMAIN cache
    ELSE FALSE

KeyString(what) == IF IsRelationInfo(what) THEN Val(what.relation).name ELSE what.name

CanCall(c) == calls[c].pc \in {"idle", "done"} /\ ncalls < MaxCalls

\* no parse call is under study
ParserIdle ==
    /\ parse_arg = PathText("")
    /\ files = [p \in {} |-> NoFile]
    /\ parse_outcome = None

\* no collection is under study
CollectionIdle ==
    /\ collection = FeatureTableInfoCollection(None, None, "", None)
    /\ add_outcome = None
    /\ nadds = 0

\* no Revision is under study
RevisionIdle ==
    /\ sequence_arg = None
    /\ revision = None

\* no I18nPack is under study
I18nIdle ==
    /\ pack = I18nPack(None)
    /\ current_locale = None
    /\ last_op = None
    /\ nops = 0

\* no field object is under study
FieldParserIdle ==
    /\ field_json = EmptyDict
    /\ field_info = None

UnitsIdle == RevisionIdle /\ I18nIdle /\ FieldParserIdle

\* a factory right after construction, on a data store of one of the schemas
\* given, its callers in the calls given
InitFactory(initial_calls, schemas) ==
    /\ factory \in FactoryClasses
    /\ store_schema \in schemas
    /\ classes = [k \in {} |-> 0]
    /\ metadata = {}
    /\ requests = <<>>
    /\ next_id = 0
    /\ made = {}
    /\ calls = initial_calls
    /\ ncalls = 0
    /\ data_store = Some(GeoAlchemyDataStore(store_schema))
    /\ constructed = Some(Construction(factory, data_store, TRUE, NoError))
    /\ ParserIdle
    /\ CollectionIdle
    /\ UnitsIdle

\* one caller: calls follow one another
Init == InitFactory([c \in {"c1"} |-> Idle], SchemaNames)

\* ------------------------------------------------------------------------
\* EntityClassFactory
\* ------------------------------------------------------------------------

\* EntityClassFactory._add
Add(c, cls) ==
    /\ CanCall(c)
    /\ classes' = [k \in DOMAIN classes \cup {cls.name} |->
                      IF k = cls.name THEN cls ELSE classes[k]]
    /\ calls' = Begin(c, [Idle EXCEPT !.pc = "done", !.op = "_add"])
    /\ ncalls' = ncalls + 1
    /\ UNCHANGED <<factory, store_schema, metadata, requests, next_id, made>>

\* EntityClassFactory.get up to the call of make or the final lookup
Get(c, what) ==
    /\ CanCall(c)
    /\ calls' = Begin(c,
                    IF ~KeyCached(what, classes) /\ IsRelationInfo(what)
                    THEN [Idle EXCEPT !.pc = "define", !.op = "get", !.what = what,
                                      !.relation = what.relation,
                                      !.schema = Some("public"), !.via_get = TRUE]
                    ELSE [Idle EXCEPT !.pc = "lookup", !.op = "get", !.what = what,
                                      !.relation = what.relation])
    /\ ncalls' = ncalls + 1
    /\ UNCHANGED <<factory, store_schema, classes, metadata, requests, next_id, made>>

\* Lookup with self._classes.get(key): None for a key that is not cached
Lookup_with_dict_get(c) ==
    LET call == calls[c]
    IN  /\ call.pc = "lookup"
        /\ calls' = [calls EXCEPT ![c] =
                        IF KeyCached(call.what, classes)
                        THEN Return(call, classes[KeyString(call.what)])
                        ELSE [call EXCEPT !.pc = "done"]]
        /\ UNCHANGED <<factory, store_schema, classes, metadata, requests, next_id, made,
                       ncalls>>

\* EntityClassFactory.get: return self._classes[key]
Lookup(c) ==
    LET call == calls[c]
    IN  /\ call.pc = "lookup"
        /\ calls' = [calls EXCEPT ![c] =
                        IF KeyCached(call.what, classes)
                        THEN Return(call, classes[KeyString(call.what)])
                        ELSE Raised(call, "get", Error("KeyError", KeyString(call.what)))]
        /\ UNCHANGED <<factory, store_schema, classes, metadata, requests, next_id, made,
                       ncalls>>

\* ------------------------------------------------------------------------
\* GeoAlchemyEntityClassFactory.make
\* ------------------------------------------------------------------------

\* a caller calls make(relation_info, schema)
Make(c, relation_info, schema) ==
    /\ CanCall(c)
    /\ calls' = Begin(c, [Idle EXCEPT !.pc = "define", !.op = "make",
                                      !.relation = Some(relation_info),
                                      !.schema = schema])
    /\ ncalls' = ncalls + 1
    /\ UNCHANGED <<factory, store_schema, classes, metadata, requests, next_id, made>>

\* make: _schema and _define_fields
DefineFields(c) ==
    LET call == calls[c]
        _schema == IF ~IsNone(call.schema) THEN Val(call.schema) ELSE store_schema
        _field_props == _define_fields(factory, Val(call.relation))
    IN  /\ call.pc = "define"
        /\ calls' = [calls EXCEPT ![c] =
                        IF _field_props.ok
                        THEN [call EXCEPT !.pc = "declare", !.table_schema = _schema,
                                          !.defined = TRUE, !.props = _field_props.value]
                        ELSE Raised(call, "_define_fields", _field_props.error)]
        /\ UNCHANGED <<factory, store_schema, classes, metadata, requests, next_id, made,
                       ncalls>>

\* does SQLAlchemy's mapper find a primary key among the columns
HasPrimaryKey(props) == \E i \in 1..Len(props) : props[i].value.primary_key

\* make: inner_cls = type(..., (Base,), props).  The declarative base defines
\* the table on Base.metadata and then maps the class: it raises
\* InvalidRequestError when a table of that schema and name is already defined
\* on Base, and ArgumentError when the columns hold no primary key.
DeclareInner(c) ==
    LET call == calls[c]
        table == <<call.table_schema, Val(call.relation).name>>
    IN  /\ call.pc = "declare"
        /\ IF table \in metadata
           THEN /\ calls' = [calls EXCEPT ![c] =
                                Raised(call, "type", Error("InvalidRequestError", table[2]))]
                /\ UNCHANGED metadata
           ELSE /\ metadata' = metadata \cup {table}
                /\ calls' = [calls EXCEPT ![c] =
                                IF HasPrimaryKey(call.props)
                                THEN [call EXCEPT !.pc = "create"]
                                ELSE Raised(call, "type", Error("ArgumentError", table[2]))]
        /\ UNCHANGED <<factory, store_schema, classes, requests, next_id, made, ncalls>>

\* the wrapper class make builds around the inner class
NewClass(id, relation_info, schema, props, base) ==
    [id |-> id, name |-> ClassName(relation_info.name), base |-> base,
     tablename |-> relation_info.name, schema |-> schema, columns |-> props]

\* CreateTable with the engine's exception caught and passed over
CreateTable_ignoring_failure(c, created) ==
    LET call == calls[c]
        relation_info == Val(call.relation)
        request == [name |-> relation_info.name, schema |-> call.table_schema,
                    ok |-> created, caller |-> c]
        new_cls == NewClass(next_id, relation_info, call.table_schema, call.props,
                            base_type(factory))
    IN  /\ call.pc = "create"
        /\ requests' = Append(requests, request)
        /\ next_id' = next_id + 1
        /\ made' = IF call.via_get THEN made ELSE made \cup {new_cls}
        /\ calls' = [calls EXCEPT ![c] =
                        IF call.via_get
                        THEN [call EXCEPT !.pc = "lookup", !.made = Some(new_cls),
                                          !.requests = @ + 1]
                        ELSE Return([call EXCEPT !.made = Some(new_cls),
                                                  !.requests = @ + 1], new_cls)]
        /\ UNCHANGED <<factory, store_schema, classes, metadata, ncalls>>

\* make: inner_cls.__table__.create(engine), new_cls = type(...), return.
\* The engine answers the request or raises; make inside get returns to get.
CreateTable(c, created) ==
    LET call == calls[c]
        relation_info == Val(call.relation)
        request == [name |-> relation_info.name, schema |-> call.table_schema,
                    ok |-> created, caller |-> c]
        new_cls == NewClass(next_id, relation_info, call.table_schema, call.props,
                            base_type(factory))
    IN  /\ call.pc = "create"
        /\ requests' = Append(requests, request)
        /\ IF created
           THEN /\ next_id' = next_id + 1
                /\ made' = IF call.via_get THEN made ELSE made \cup {new_cls}
                /\ calls' = [calls EXCEPT ![c] =
                                IF call.via_get
                                THEN [call EXCEPT !.pc = "lookup", !.made = Some(new_cls),
                                                  !.requests = @ + 1]
                                ELSE Return([call EXCEPT !.made = Some(new_cls),
                                                          !.requests = @ + 1], new_cls)]
           ELSE /\ calls' = [calls EXCEPT ![c] =
                                Raised([call EXCEPT !.requests = @ + 1], "create",
                                       Error("DatabaseError", relation_info.name))]
                /\ UNCHANGED <<next_id, made>>
        /\ UNCHANGED <<factory, store_schema, classes, metadata, ncalls>>

\* ------------------------------------------------------------------------
\* Specifications
\* ------------------------------------------------------------------------

Next ==
    /\ \E c \in DOMAIN calls :
        \/ \E cls \in made : Add(c, cls)
        \/ \E what \in GetArgs : Get(c, what)
        \/ Lookup(c)
        \/ \E r \in SampleRelations, s \in SchemaArgs : Make(c, r, s)
        \/ DefineFields(c)
        \/ DeclareInner(c)
        \/ \E created \in BOOLEAN : CreateTable(c, created)
    /\ UNCHANGED <<construction_vars, parsing_vars, collection_vars, unit_vars>>

Spec == Init /\ [][Next]_vars

\* two callers on one factory: their calls interleave step by step
ConcInit == InitFactory([c \in {"c1", "c2"} |-> Idle], {"gis"})

ConcSpec == ConcInit /\ [][Next]_vars

\* one make call on each relation-info object a caller can construct
MapInit ==
    \E r \in RelationsNamed({"A"}) :
        InitFactory([c \in {"c1"} |->
                        [Idle EXCEPT !.pc = "define", !.op = "make",
                                     !.relation = Some(r), !.schema = Some("public")]],
                    SchemaNames)

MapNext ==
    /\ \E c \in DOMAIN calls :
        \/ DefineFields(c)
        \/ DeclareInner(c)
        \/ \E created \in BOOLEAN : CreateTable(c, created)
    /\ UNCHANGED <<construction_vars, parsing_vars, collection_vars, unit_vars>>

MapSpec == MapInit /\ [][MapNext]_vars

\* ------------------------------------------------------------------------
\* Construction of a factory
\* ------------------------------------------------------------------------

\* what a caller passes as data_store
DataStoreArgs == {None, Some(GeoAlchemyDataStore(store_schema))}

\* no factory has been constructed; a data store of one of the schemas exists
NoFactoryYet(schemas) ==
    /\ factory = NoFactory
    /\ store_schema \in schemas
    /\ classes = [k \in {} |-> 0]
    /\ metadata = {}
    /\ requests = <<>>
    /\ next_id = 0
    /\ made = {}
    /\ calls = [c \in {"c1"} |-> Idle]
    /\ ncalls = 0
    /\ data_store = None
    /\ constructed = None

CtorInit == NoFactoryYet(SchemaNames) /\ ParserIdle /\ CollectionIdle /\ UnitsIdle

\* __init__ storing whatever data_store it is given
Construct_without_check(cls, store) ==
    /\ factory = NoFactory
    /\ factory' = cls
    /\ classes' = [k \in {} |-> 0]
    /\ data_store' = store
    /\ constructed' = Some(Construction(cls, store, TRUE, NoError))
    /\ UNCHANGED <<store_schema, metadata, requests, next_id, made, calls, ncalls>>
    /\ UNCHANGED <<parsing_vars, collection_vars, unit_vars>>

\* GeoAlchemyEntityClassFactory.__init__, which
\* GeoAlchemyFeatureTableClassFactory.__init__ calls with its data_store:
\* after super().__init__() has set _classes, a None data_store raises
\* TypeError and the caller gets no object
Construct(cls, store) ==
    /\ factory = NoFactory
    /\ IF IsNone(store)
       THEN /\ constructed' =
                 Some(Construction(cls, store, FALSE, Error("TypeError", "data_store")))
            /\ UNCHANGED <<factory, classes, data_store>>
       ELSE /\ factory' = cls
            /\ classes' = [k \in {} |-> 0]
            /\ data_store' = store
            /\ constructed' = Some(Construction(cls, store, TRUE, NoError))
    /\ UNCHANGED <<store_schema, metadata, requests, next_id, made, calls, ncalls>>
    /\ UNCHANGED <<parsing_vars, collection_vars, unit_vars>>

CtorNext ==
    \/ \E cls \in FactoryClasses, store \in DataStoreArgs : Construct(cls, store)
    \/ factory # NoFactory /\ Next

CtorSpec == CtorInit /\ [][CtorNext]_vars

\* ------------------------------------------------------------------------
\* Parsing a document
\* ------------------------------------------------------------------------

\* an object with the key added when a value is given for it
WithOptional(obj, key, given) == IF IsNone(given) THEN obj ELSE With(obj, key, Val(given))

\* the JSON of a field, with every key _json_2_field_info subscripts
FieldJson(name, type) ==
    [name |-> name, type |-> type, source |-> EmptyDict, target |-> EmptyDict,
     i18n |-> EmptyDict]

FieldKeys == {"name", "type", "source", "target", "i18n"}

OwnFieldJson == FieldJson("id", "int")

CommonFieldJson == FieldJson("updated", "DATETIME")

\* the JSON of a feature table, with every key the parser subscripts
FeatureTableJson(fields) ==
    [name |-> "A", geometryType |-> "Polygon", nena |-> EmptyDict, i18n |-> EmptyDict,
     fields |-> fields]

FeatureTableKeys == {"name", "geometryType", "nena", "i18n", "fields"}

\* feature tables lacking one key, holding a field that lacks one key, and
\* complete ones with and without the optional identity and srid keys
FeatureTableJsons ==
    {Without(FeatureTableJson(<<OwnFieldJson>>), k) : k \in FeatureTableKeys}
    \cup {FeatureTableJson(<<Without(OwnFieldJson, k)>>) : k \in FieldKeys}
    \cup {WithOptional(WithOptional(FeatureTableJson(fields), "identity", identity),
                       "srid", srid) :
            fields \in {<<>>, <<OwnFieldJson>>},
            identity \in {None, Some("id")},
            srid \in {None, Some(None), Some(Some(2230))}}

RevisionJson ==
    [title |-> Some("T"), sequence |-> Some(PyInt(1)), authorName |-> Some("N"),
     authorEmail |-> Some("E")]

\* the strings of TestRevision
IntString == <<"1", "0", "0">>

FloatString == <<"1", "0", "0", ".", "1">>

BadString == <<"B", "A", "D", " ", "V", "A", "L", "U", "E">>

RevisionKeys == {"title", "sequence", "authorName", "authorEmail"}

\* revision objects: complete, and lacking one key
RevisionJsons == {RevisionJson} \cup {Without(RevisionJson, k) : k \in RevisionKeys}

\* revision objects whose sequence is a string
StringSequenceJsons ==
    {With(RevisionJson, "sequence", Some(PyStr(s))) :
        s \in {IntString, FloatString, BadString}}

\* spatial objects: each key absent or present, a list empty or not,
\* commonSrid null or a number
SpatialJsons ==
    {WithOptional(WithOptional(WithOptional(WithOptional(EmptyDict,
            "commonSrid", common_srid), "defaultIdentity", default_identity),
            "commonFields", common_fields), "featureTables", feature_tables) :
        common_srid \in {None, Some(None), Some(Some(4326))},
        default_identity \in {None, Some("updated")},
        common_fields \in {None, Some(<<>>), Some(<<CommonFieldJson>>),
                           Some(<<Without(CommonFieldJson, "name")>>)},
        feature_tables \in {None, Some(<<>>)} \cup {Some(<<t>>) : t \in FeatureTableJsons}}

\* the documents (JSON objects) handed to the parser
Documents ==
    {WithOptional(WithOptional(WithOptional(EmptyDict,
            "name", name), "revision", revision_json), "spatial", spatial) :
        name \in {None, Some("M")},
        revision_json \in {None} \cup {Some(r) : r \in RevisionJsons},
        spatial \in {None} \cup {Some(sp) : sp \in SpatialJsons}}
    \cup {[name |-> "M", revision |-> r,
           spatial |-> [commonSrid |-> Some(4326), defaultIdentity |-> "updated",
                        commonFields |-> <<CommonFieldJson>>,
                        featureTables |-> <<FeatureTableJson(<<OwnFieldJson>>)>>]] :
            r \in StringSequenceJsons}

\* a complete document
SampleDocument ==
    [name |-> "M", revision |-> RevisionJson,
     spatial |-> [commonSrid |-> Some(4326), defaultIdentity |-> "updated",
                  commonFields |-> <<CommonFieldJson>>,
                  featureTables |-> <<FeatureTableJson(<<OwnFieldJson>>)>>]]

ModelPath == "model.json"

\* what the path may name: no file, an unreadable file, a file that holds
\* text that is not JSON, null, a complete document or one without a revision
FilesAt(path) ==
    {[p \in {path} |-> f] :
        f \in {NoFile, File(FALSE, JsonText(Some(SampleDocument))),
               File(TRUE, PathText("")), File(TRUE, JsonText(None)),
               File(TRUE, JsonText(Some(SampleDocument))),
               File(TRUE, JsonText(Some(Without(SampleDocument, "revision"))))}}

\* parse is about to be called: on the text of a document or of null, with
\* no file of that name, or on a path
ParseInit ==
    /\ NoFactoryYet({"public"})
    /\ \/ /\ parse_arg \in {JsonText(Some(d)) : d \in Documents} \cup {JsonText(None)}
          /\ files = [p \in {ModelPath} |-> NoFile]
       \/ /\ parse_arg = PathText(ModelPath)
          /\ files \in FilesAt(ModelPath)
    /\ parse_outcome = None
    /\ CollectionIdle
    /\ UnitsIdle

\* the call parse(s)
Parse ==
    /\ IsNone(parse_outcome)
    /\ parse_outcome' = Some(parse(parse_arg, files))
    /\ UNCHANGED <<parse_arg, files, factory_vars, construction_vars, collection_vars, unit_vars>>

ParseNext == Parse

ParseSpec == ParseInit /\ [][ParseNext]_vars

\* ------------------------------------------------------------------------
\* A collection of feature tables
\* ------------------------------------------------------------------------

\* the common field of the sample collections, and a table's own field
\* a FieldInfo a caller constructs with the arguments FieldInfo requires
RequiredArgsField(name, data_type) ==
    FieldInfo(name, data_type, Source(None, None).value, Target(FALSE, FALSE),
              I18nPack(None), FALSE, None, None, None, None).value

CommonField == RequiredArgsField("updated", "DATETIME")

OwnField == RequiredArgsField("id", "INT")

\* the names of the tables: "a" differs from "A" in letter case only
TableNames == {"A", "a", "B"}

\* a feature table that holds the common field besides its own
TableWithCommonField(name) ==
    FeatureTableInfo(name, Some("updated"), "POINT", Some(<<OwnField, CommonField>>), None)

\* the feature tables a caller hands to add_relation: with and without the
\* collection's common field
AddableTables ==
    {TableWithCommonField(n) : n \in TableNames}
    \cup {FeatureTableInfo(n, Some("updated"), "POINT", Some(<<OwnField>>), None) :
            n \in TableNames}

\* the collections the parser builds from a spatial object with one table
\* and with none
ParsedCollections ==
    {_json_2_feature_table_info_collection(sp).value :
        sp \in {SampleDocument.spatial, With(SampleDocument.spatial, "featureTables", <<>>)}}

\* the collections a caller constructs: feature_tables None, an empty list,
\* or a list of one table
ConstructedCollections ==
    {FeatureTableInfoCollection(Some(<<CommonField>>), tables, "updated", None) :
        tables \in {None, Some(<<>>), Some(<<TableWithCommonField("A")>>)}}

CollectionInit ==
    /\ NoFactoryYet({"public"})
    /\ ParserIdle
    /\ UnitsIdle
    /\ collection \in ParsedCollections \cup ConstructedCollections
    /\ add_outcome = None
    /\ nadds = 0

\* an add_relation call: its argument, the collection it found, its outcome
Added(relation, before, ok, error) ==
    [relation |-> relation, before |-> before, ok |-> ok, error |-> error]

\* _RelationInfoCollection.add_relation; relation is None or a feature table
AddRelation(relation) ==
    /\ nadds < MaxAdds
    /\ nadds' = nadds + 1
    /\ IF IsNone(relation)
       THEN /\ add_outcome' =
                 Some(Added(relation, collection, FALSE, Error("TypeError", "relation")))
            /\ UNCHANGED collection
       ELSE IF HasRelation(collection, Val(relation).name)
       THEN /\ add_outcome' =
                 Some(Added(relation, collection, FALSE,
                            Error("KeyError", Val(relation).name)))
            /\ UNCHANGED collection
       ELSE /\ collection' =
                 [collection EXCEPT !.relations = Append(@, Val(relation))]
            /\ add_outcome' = Some(Added(relation, collection, TRUE, NoError))
    /\ UNCHANGED <<factory_vars, construction_vars, parsing_vars, unit_vars>>

CollectionNext ==
    \E relation \in {None} \cup {Some(t) : t \in AddableTables} : AddRelation(relation)

CollectionSpec == CollectionInit /\ [][CollectionNext]_vars

\* ------------------------------------------------------------------------
\* Properties
\* ------------------------------------------------------------------------

Callers == DOMAIN calls

\* the steps of make in which a synthesis can fail
SynthesisSteps == {"_define_fields", "type", "create"}

\* C1: on a factory whose cache holds no type for relation name N, get(r) with
\* a relation-info object r named N (a RelationInfo or a FeatureTableInfo)
\* invokes make, caches the result and returns a type, which later get(r) and
\* get(N) return again.  Stated of every finished get(r) whose synthesis did
\* not fail: it returns a type and the cache holds that type under N.
C1_GetMakesCachesAndReturns ==
    \A c \in Callers :
        LET call == calls[c]
        IN  (/\ call.pc = "done" /\ call.op = "get" /\ call.what.tag = "relation"
             /\ call.raised_in \notin SynthesisSteps)
            => /\ ~IsNone(call.result)
               /\ Val(call.relation).name \in DOMAIN classes
               /\ classes[Val(call.relation).name] = Val(call.result)

\* C2: after any sequence of get and make calls on one factory, the engine has
\* received at most one table-creation request for any single relation name:
\* the first call wins and later calls for that name synthesize nothing.
\* Stated of the calls after the winning one: once a request for a name has
\* succeeded, no further request for that name is issued.
C2_AtMostOneRequestPerName ==
    \A i, j \in 1..Len(requests) :
        (i < j /\ requests[i].name = requests[j].name) => ~requests[i].ok

\* C3: when two callers run get or make concurrently for the same relation
\* name on one factory, at most one synthesis succeeds for that name and both
\* callers end up with the same type.  Stated of two finished calls on the
\* same relation-info object that were in flight together, one of which
\* synthesized a type while the engine failed neither.
C3_ConcurrentCallsAgree ==
    \A c, d \in Callers :
        LET x == calls[c]
            y == calls[d]
        IN  (/\ c # d
             /\ x.pc = "done" /\ y.pc = "done"
             /\ x.overlapped /\ y.overlapped
             /\ x.op \in {"get", "make"} /\ y.op \in {"get", "make"}
             /\ ~IsNone(x.relation) /\ ~IsNone(y.relation)
             /\ x.relation = y.relation
             /\ ~IsNone(x.made) /\ y.raised_in # "create")
            => /\ IsNone(y.made)
               /\ ~IsNone(x.result) /\ x.result = y.result

\* C4: get(name) with a bare name string for which the factory holds no cached
\* type fails with KeyError, issues no table-creation request and leaves the
\* cache unchanged.
C4_GetUnknownNameFails ==
    [][\A c \in Callers :
          /\ (calls'[c] # calls[c] /\ calls'[c].op = "get" /\ calls'[c].what.tag = "str")
             => /\ classes' = classes
                /\ requests' = requests
                /\ calls'[c].pc \in {"lookup", "done"}
                /\ calls'[c].requests = 0
          /\ (/\ calls[c].pc = "lookup" /\ calls[c].what.tag = "str"
              /\ calls[c].what.name \notin DOMAIN classes
              /\ calls'[c].pc = "done")
             => /\ calls'[c].error.type = "KeyError"
                /\ calls'[c].error.attr = calls[c].what.name
                /\ IsNone(calls'[c].result)]_vars

\* a get by a name that is not cached has ended in KeyError, on a factory
\* whose cache holds a type under another name
C4_Witness ==
    \E c \in Callers :
        /\ calls[c].pc = "done" /\ calls[c].op = "get" /\ calls[c].what.tag = "str"
        /\ calls[c].error.type = "KeyError"
        /\ DOMAIN classes # {}

\* C5: every make call that returns a type has issued exactly one
\* table-creation request to the data store's engine before returning; when
\* the request fails the error reaches the caller, no type is returned or
\* cached, and the request is not repeated.
C5_MakeIssuesOneRequest ==
    /\ \A c \in Callers :
          LET call == calls[c]
          IN  /\ ~IsNone(call.made)
                 => /\ call.requests = 1
                    /\ \E i \in 1..Len(requests) :
                          requests[i] = [name |-> Val(call.relation).name,
                                         schema |-> Val(call.made).schema,
                                         ok |-> TRUE, caller |-> c]
              /\ (call.pc = "done" /\ call.op = "make" /\ ~IsNone(call.result))
                 => call.made = call.result
              /\ call.raised_in = "create"
                 => /\ call.pc = "done"
                    /\ call.requests = 1
                    /\ call.error.type = "DatabaseError"
                    /\ IsNone(call.result) /\ IsNone(call.made)
                    /\ \E i \in 1..Len(requests) :
                          requests[i] = [name |-> Val(call.relation).name,
                                         schema |-> call.table_schema,
                                         ok |-> FALSE, caller |-> c]
    /\ \A k \in DOMAIN classes : classes[k] \in made

\* a make call has returned a type, and another has failed in the engine
C5_Witness ==
    \E c \in Callers :
        /\ calls[c].pc = "done" /\ calls[c].op = "make"
        /\ calls[c].raised_in = "create"
        /\ made # {}

\* the data types and geometry types the factory has a column for
MappedDataTypes == {"TEXT", "INT", "FLOAT", "DATETIME"}

MappedGeometryTypes == {"POINT", "POLYLINE", "POLYGON"}

IsFeatureFactory == factory = "GeoAlchemyFeatureTableClassFactory"

\* the identity of r names one of its fields
IdentityResolves(r) ==
    /\ ~IsNone(r.identity)
    /\ \E i \in 1..Len(r.fields) : Lower(r.fields[i].name) = Lower(Val(r.identity))

\* C6: the column of a field is a function of the field's data type: TEXT
\* gives a String column whose length is preferences.length when the field has
\* that preference and 150 otherwise (also without preferences), INT an Integer
\* column, FLOAT a Float column and DATETIME a DateTime column, each named
\* after the field.  Stated of every layout _define_fields returns, for every
\* field whose entry the geometry column has not replaced.
C6_FieldColumns ==
    \A c \in Callers :
        LET call == calls[c]
            fields == Val(call.relation).fields
        IN  call.defined
            => \A i \in 1..Len(fields) :
                  LET f == fields[i]
                      hasLength == /\ ~IsNone(f.preferences)
                                   /\ "length" \in DOMAIN Val(f.preferences)
                  IN  ~(IsFeatureFactory /\ f.name = "geom")
                      => /\ f.name \in DictKeys(call.props)
                         /\ LET col == DictGet(call.props, f.name)
                            IN  /\ col.name = f.name
                                /\ f.data_type \in MappedDataTypes
                                /\ f.data_type = "TEXT"
                                   => /\ col.type = "String"
                                      /\ col.length = IF hasLength
                                                      THEN Some(Val(f.preferences).length)
                                                      ELSE Some(150)
                                /\ f.data_type = "INT"
                                   => col.type = "Integer" /\ IsNone(col.length)
                                /\ f.data_type = "FLOAT"
                                   => col.type = "Float" /\ IsNone(col.length)
                                /\ f.data_type = "DATETIME"
                                   => col.type = "DateTime" /\ IsNone(col.length)

\* a layout holds a String column of the preferred length 200 and one of the
\* default length
C6_Witness ==
    \E c \in Callers :
        /\ calls[c].defined
        /\ ~IsFeatureFactory
        /\ Len(calls[c].props) = 2
        /\ calls[c].props[1].value.type = "String"
        /\ calls[c].props[1].value.length = Some(200)
        /\ calls[c].props[2].value.type = "String"
        /\ calls[c].props[2].value.length = Some(150)
        /\ IsNone(Val(calls[c].relation).fields[2].preferences)

\* the first field of r that has no column type
FirstUnmapped(r) ==
    LET bad == {i \in 1..Len(r.fields) : r.fields[i].data_type \notin MappedDataTypes}
    IN  r.fields[CHOOSE i \in bad : \A j \in bad : i <= j]

\* C7: mapping a field whose data type is UUID or UNKNOWN fails with
\* UnsupportedDataTypeError whose data_type is that type; inside make no
\* table-creation request is issued and no type is produced.  Stated of every
\* make that has passed _define_fields on a relation holding such a field
\* (the fields are mapped when the relation's identity resolves or is None).
C7_UnsupportedDataType ==
    \A c \in Callers :
        LET call == calls[c]
            r == Val(call.relation)
            unmapped == \E i \in 1..Len(r.fields) :
                            r.fields[i].data_type \in {"UUID", "UNKNOWN"}
        IN  (call.op = "make" /\ call.pc # "define")
            => /\ (unmapped /\ (IsNone(r.identity) \/ IdentityResolves(r)))
                  => /\ call.pc = "done"
                     /\ call.error = [type |-> "UnsupportedDataTypeError",
                                      attr |-> FirstUnmapped(r).data_type]
                     /\ call.requests = 0 /\ requests = <<>>
                     /\ IsNone(call.made) /\ IsNone(call.result) /\ made = {}
               /\ call.error.type = "UnsupportedDataTypeError"
                  => unmapped /\ call.error.attr \in {"UUID", "UNKNOWN"}

\* make has failed on the second field of a relation, a UUID field
C7_Witness ==
    \E c \in Callers :
        /\ calls[c].pc = "done" /\ calls[c].op = "make"
        /\ calls[c].error = [type |-> "UnsupportedDataTypeError", attr |-> "UUID"]
        /\ Len(Val(calls[c].relation).fields) = 2
        /\ Val(calls[c].relation).fields[1].data_type \in MappedDataTypes

\* C8: for a feature table whose geometry type is POINT, POLYLINE or POLYGON
\* the synthesized geometry column has the corresponding spatial kind and
\* carries the relation's effective SRID (its own srid, else the default).
C8_GeometryColumnAtSrid ==
    \A c \in Callers :
        LET call == calls[c]
            r == Val(call.relation)
        IN  (/\ call.defined /\ IsFeatureFactory /\ r.kind = "FeatureTableInfo"
             /\ r.geometry_type \in MappedGeometryTypes)
            => /\ "geom" \in DictKeys(call.props)
               /\ LET col == DictGet(call.props, "geom")
                  IN  /\ col.type = "Geometry"
                      /\ col.geometry_type = r.geometry_type
                      /\ col.srid = Some(srid_of(r))

\* every field of r maps to a column: the identity is found whenever a field
\* is mapped, and no field has an unmapped data type
FieldsMap(r) ==
    /\ \A i \in 1..Len(r.fields) : r.fields[i].data_type \in MappedDataTypes
    /\ r.fields = <<>> \/ IsNone(r.identity) \/ IdentityResolves(r)

\* C9 as stated: synthesizing a feature table whose geometry type is UNKNOWN
\* fails with UnsupportedGeometryException whose geometry_type is the
\* offending value, and no table-creation request is issued.
C9_UnknownGeometryFails ==
    \A c \in Callers :
        LET call == calls[c]
            r == Val(call.relation)
        IN  (/\ call.op = "make" /\ call.pc # "define"
             /\ IsFeatureFactory /\ r.kind = "FeatureTableInfo"
             /\ r.geometry_type \notin MappedGeometryTypes)
            => /\ call.pc = "done"
               /\ call.error = [type |-> "UnsupportedGeometryException",
                                attr |-> r.geometry_type]
               /\ requests = <<>>

\* C9 as amended: such a synthesis always fails without a table-creation
\* request; it fails with UnsupportedGeometryException carrying the offending
\* value when every field of the table maps to a column, and with the field
\* mapping's own error otherwise.
C9_UnknownGeometryFailsAfterFields ==
    \A c \in Callers :
        LET call == calls[c]
            r == Val(call.relation)
        IN  (call.op = "make" /\ call.pc # "define" /\ IsFeatureFactory
             /\ r.kind = "FeatureTableInfo")
            => /\ r.geometry_type \notin MappedGeometryTypes
                  => /\ call.pc = "done"
                     /\ call.raised_in = "_define_fields"
                     /\ IsNone(call.result) /\ IsNone(call.made)
                     /\ call.requests = 0 /\ requests = <<>> /\ metadata = {}
                     /\ IF FieldsMap(r)
                        THEN call.error = [type |-> "UnsupportedGeometryException",
                                           attr |-> r.geometry_type]
                        ELSE call.error.type \in {"UnsupportedDataTypeError", "KeyError"}
               /\ call.error.type = "UnsupportedGeometryException"
                  => /\ r.geometry_type \notin MappedGeometryTypes
                     /\ call.error.attr = r.geometry_type

\* make has failed with UnsupportedGeometryException on a feature table with
\* two mapped fields
C9_Witness ==
    \E c \in Callers :
        /\ calls[c].pc = "done" /\ calls[c].op = "make"
        /\ calls[c].error = [type |-> "UnsupportedGeometryException", attr |-> "UNKNOWN"]
        /\ Len(Val(calls[c].relation).fields) = 2

\* C10: in every synthesized table layout the column of the relation's
\* identity field is marked primary key and no other column is: exactly one
\* primary-key column when the identity resolves to a field, never more.
C10_IdentityIsPrimaryKey ==
    \A c \in Callers :
        LET call == calls[c]
            r == Val(call.relation)
            keys == {i \in 1..Len(call.props) : call.props[i].value.primary_key}
        IN  call.defined
            => /\ Cardinality(keys) <= 1
               /\ IdentityResolves(r)
                  => /\ Cardinality(keys) = 1
                     /\ \A i \in keys :
                           Lower(call.props[i].value.name) = Lower(Val(r.identity))

\* C11: constructing an entity-class factory or a feature-table class factory
\* with data_store = None fails at construction with TypeError, and no
\* factory object whose data store is absent is ever reachable.
C11_NoneDataStoreRejected ==
    /\ factory # NoFactory => ~IsNone(data_store)
    /\ ~IsNone(constructed) /\ IsNone(Val(constructed).data_store) =>
            /\ ~Val(constructed).ok
            /\ Val(constructed).error.type = "TypeError"
            /\ factory = NoFactory

\* a feature-table class factory was constructed with data_store = None
C11_Witness ==
    /\ ~IsNone(constructed)
    /\ Val(constructed).cls = "GeoAlchemyFeatureTableClassFactory"
    /\ IsNone(Val(constructed).data_store)
    /\ ~Val(constructed).ok

\* parse was called on the text of a JSON object
ParsedDocument == ~IsNone(parse_outcome) /\ parse_arg.json /\ ~IsNone(parse_arg.value)

\* that object
Document == Val(parse_arg.value)

\* the ModelInfo parse returned
Model == Val(Val(parse_outcome).value)

ParseReturned == ~IsNone(parse_outcome) /\ Val(parse_outcome).ok

ParseRaised(type) ==
    ~IsNone(parse_outcome) /\ ~Val(parse_outcome).ok /\ Val(parse_outcome).error.type = type

\* the value at a key of an object, or the default when the key is absent
ValueOr(obj, key, default) == IF key \in DOMAIN obj THEN obj[key] ELSE default

\* a field list in which some field lacks one of its required keys
SomeFieldLacksKey(list) ==
    \E i \in 1..Len(list) : ~(FieldKeys \subseteq DOMAIN list[i])

\* the document lacks one of the keys the specification requires
LacksRequiredKey(doc) ==
    \/ "revision" \notin DOMAIN doc
    \/ "spatial" \notin DOMAIN doc
    \/ "revision" \in DOMAIN doc /\ ~(RevisionKeys \subseteq DOMAIN doc.revision)
    \/ /\ "spatial" \in DOMAIN doc
       /\ \/ "defaultIdentity" \notin DOMAIN doc.spatial
          \/ SomeFieldLacksKey(ValueOr(doc.spatial, "commonFields", <<>>))
          \/ \E i \in 1..Len(ValueOr(doc.spatial, "featureTables", <<>>)) :
                LET table == doc.spatial.featureTables[i]
                IN  \/ ~(FeatureTableKeys \subseteq DOMAIN table)
                    \/ SomeFieldLacksKey(ValueOr(table, "fields", <<>>))

\* C12: for every document that lacks any one required key (revision,
\* spatial, revision.title, revision.sequence, revision.authorName,
\* revision.authorEmail, spatial.defaultIdentity, a field's name, type,
\* source, target or i18n, a feature table's name, geometryType, nena, i18n
\* or fields), parse fails with ParseException and returns no ModelInfo.
C12_MissingRequiredKeyFails ==
    ParsedDocument /\ LacksRequiredKey(Document) => ParseRaised("ParseException")

\* C13: when s is not JSON and names no readable file, or names a file whose
\* contents are not JSON, parse ends in ParseException and in no other kind
\* of error.
C13_BothAttemptsFail ==
    (/\ ~IsNone(parse_outcome)
     /\ ~parse_arg.json
     /\ LET file == files[parse_arg.path]
        IN  ~file.exists \/ ~file.readable \/ ~file.content.json)
    => ParseRaised("ParseException")

\* the feature table parsed from the i-th table of the document
ParsedTable(i) ==
    get_relation(Model.spatial_info.feature_tables,
                 Document.spatial.featureTables[i].name).value

\* C14: a feature table parsed without an identity key has the collection's
\* defaultIdentity as its identity, and one parsed with its own identity key
\* has that key's value.
C14_IdentityResolution ==
    ParsedDocument /\ ParseReturned =>
        \A i \in 1..Len(Document.spatial.featureTables) :
            ParsedTable(i).identity =
                Some(ValueOr(Document.spatial.featureTables[i], "identity",
                             Document.spatial.defaultIdentity))

\* the SRID an object gives at a key: absent and null give none
GivenSrid(obj, key) == ValueOr(obj, key, None)

\* C15: a parsed feature table's srid is its own srid when the document
\* gives one, otherwise the collection's commonSrid, and 3857 when that is
\* absent or null too; the collection's common_srid is the given commonSrid
\* or 3857.
C15_SridResolution ==
    ParsedDocument /\ ParseReturned =>
        LET common == GivenSrid(Document.spatial, "commonSrid")
            expected_common == IF ~IsNone(common) THEN Val(common) ELSE DEFAULT_SRID
        IN  /\ common_srid_of(Model.spatial_info.feature_tables) = expected_common
            /\ \A i \in 1..Len(Document.spatial.featureTables) :
                    LET own == GivenSrid(Document.spatial.featureTables[i], "srid")
                    IN  srid_of(ParsedTable(i)) =
                            IF ~IsNone(own) THEN Val(own) ELSE expected_common

\* C16: parse accepts a spatial object in which commonSrid, commonFields or
\* featureTables is absent or empty, while an absent defaultIdentity makes
\* it fail with ParseException.
C16_OptionalSpatialKeys ==
    ParsedDocument /\ "spatial" \in DOMAIN Document =>
        /\ ~LacksRequiredKey(Document) => ParseReturned
        /\ "revision" \in DOMAIN Document
                /\ "defaultIdentity" \notin DOMAIN Document.spatial
            => ParseRaised("ParseException")

\* C17: the ModelInfo parse returns is named by the document's name string
\* when the name key is present and "Nameless Model" when it is absent.
C17_ModelName ==
    ParsedDocument /\ ParseReturned =>
        Model.name = Str(ValueOr(Document, "name", "Nameless Model"))

\* C18: in every reachable state of a FeatureTableInfoCollection (built by
\* the parser or extended by add_relation calls), each contained feature
\* table holds every common field of the collection, so that get_field
\* succeeds on the table for every common field name.
C18_TablesHoldCommonFields ==
    \A i \in 1..Len(collection.relations), j \in 1..Len(collection.common_fields) :
        get_field(collection.relations[i], collection.common_fields[j].name).ok

\* C19: add_relation on a collection that already holds a relation whose
\* name equals the new relation's name, letter case aside, fails with
\* KeyError and leaves the collection unchanged, however the collection was
\* constructed; otherwise it inserts the relation and get_relation returns it.
C19_AddRelationRejectsDuplicate ==
    ~IsNone(add_outcome) /\ ~IsNone(Val(add_outcome).relation) =>
        LET call == Val(add_outcome)
            relation == Val(call.relation)
            duplicate == \E i \in 1..Len(call.before.relations) :
                            Lower(call.before.relations[i].name) = Lower(relation.name)
        IN  IF duplicate
            THEN ~call.ok /\ call.error.type = "KeyError" /\ collection = call.before
            ELSE /\ call.ok
                 /\ get_relation(collection, relation.name).ok
                 /\ get_relation(collection, relation.name).value = relation

\* the spellings of a field name that differ from it in letter case only
CaseVariants(name) ==
    CASE name = "id" -> {"id", "ID", "Id"}
      [] name = "geom" -> {"geom", "GEOM", "Geom"}
      [] OTHER -> {name}

\* the names get_field is asked for
FieldSpellings == CaseVariants("id") \cup CaseVariants("geom") \cup {"missing"}

\* C20: for a RelationInfo built from a list of fields, get_field(n) returns
\* the same FieldInfo for every spelling of n that differs only in letter
\* case from a contained field's name, and fails with KeyError when no
\* contained field has that name.
C20_GetFieldIgnoresCase ==
    \A c \in Callers :
        ~IsNone(calls[c].relation) =>
            LET r == Val(calls[c].relation)
            IN  \A n \in FieldSpellings :
                    LET named == {i \in 1..Len(r.fields) : n \in CaseVariants(r.fields[i].name)}
                        got == get_field(r, n)
                    IN  IF named = {}
                        THEN ~got.ok /\ got.error.type = "KeyError"
                        ELSE got.ok /\ \A i \in named : got.value = r.fields[i]

\* the fields of a relation whose identity is spelled "ID" and whose list
\* holds the field "id" were defined: get_field("ID") found the field
C20_Witness ==
    \E c \in Callers :
        /\ calls[c].defined
        /\ Val(calls[c].relation).identity = Some("ID")
        /\ \E i \in 1..Len(Val(calls[c].relation).fields) :
                Val(calls[c].relation).fields[i].name = "id"

\* C21: every RelationInfo and FeatureTableInfo that can be constructed
\* satisfies: when identity is set, a field of that name exists among its
\* fields, so get_identity_field returns a FieldInfo and never fails; when
\* identity is None, get_identity_field returns None.  Stated of the relation
\* of every call of make.
C21_IdentityFieldExists ==
    \A c \in Callers :
        LET r == Val(calls[c].relation)
            identity_field == get_identity_field(r)
        IN  ~IsNone(calls[c].relation)
            => /\ identity_field.ok
               /\ IsNone(r.identity) <=> IsNone(identity_field.value)
               /\ ~IsNone(r.identity) => IdentityResolves(r)

\* C25: the layout make synthesizes has exactly one column per field of the
\* relation and, on the feature-table factory, exactly one more column for the
\* geometry, for every list of fields, a field named 'geom' included.  Stated
\* of every layout _define_fields returns.
C25_OneColumnPerField ==
    \A c \in Callers :
        LET call == calls[c]
            r == Val(call.relation)
        IN  call.defined
            => Cardinality(DictKeys(call.props))
               = Len(r.fields) + (IF IsFeatureFactory THEN 1 ELSE 0)

\* C28: make called without a schema argument, as get calls it, places the
\* table in the schema of the factory's data store; a schema argument given
\* overrides it.  Stated of every call of make past _define_fields: the call
\* get makes has the schema of the data store, and any other call the schema
\* it was given.
C28_SchemaDefaultsToDataStore ==
    \A c \in Callers :
        LET call == calls[c]
        IN  call.defined
            => /\ call.via_get => call.table_schema = store_schema
               /\ (~call.via_get /\ ~IsNone(call.schema))
                  => call.table_schema = Val(call.schema)

\* ------------------------------------------------------------------------
\* Construction of a Revision
\* ------------------------------------------------------------------------

\* the longest string of the characters below handed to Revision
MaxChars == 3

SequenceChars == {"0", "1", ".", "B"}

\* strings a caller passes as sequence: every short string of the characters
\* above, and the strings of TestRevision
SequenceStrings ==
    UNION {[1..n -> SequenceChars] : n \in 0..MaxChars}
    \cup {IntString, FloatString, BadString}

\* the sequence arguments: None, a number, a string
SequenceArgs ==
    {None} \cup {Some(PyInt(n)) : n \in {0, 1, 100}} \cup {Some(PyFloat(1001, 1))}
    \cup {Some(PyStr(s)) : s \in SequenceStrings}

RevisionInit ==
    /\ NoFactoryYet({"public"})
    /\ ParserIdle
    /\ CollectionIdle
    /\ I18nIdle
    /\ FieldParserIdle
    /\ sequence_arg \in SequenceArgs
    /\ revision = None

\* the call Revision(title, sequence, author_name, author_email)
NewRevision ==
    /\ IsNone(revision)
    /\ revision' = Some(Revision(Some("T"), sequence_arg, Some("N"), Some("E")))
    /\ UNCHANGED <<sequence_arg, factory_vars, construction_vars, parsing_vars,
                   collection_vars, i18n_vars, field_vars>>

RevisionNext == NewRevision

RevisionSpec == RevisionInit /\ [][RevisionNext]_vars

\* the decimal numeral of a natural number
RECURSIVE Decimal(_)
Decimal(n) ==
    LET last == CHOOSE d \in Digits : DigitValue(d) = n % 10
    IN  IF n < 10 THEN <<last>> ELSE Append(Decimal(n \div 10), last)

\* a numeral without its leading zeros ("0" keeps one)
RECURSIVE StripZeros(_)
StripZeros(chars) ==
    IF Len(chars) > 1 /\ chars[1] = "0" THEN StripZeros(Tail(chars)) ELSE chars

AllDigits(chars) == \A i \in 1..Len(chars) : chars[i] \in Digits

\* the string is the numeral of an integer
DenotesInt(chars) == chars # <<>> /\ AllDigits(chars)

\* the string is digits around one '.', with a digit on at least one side
DenotesFloat(chars) ==
    \E dot \in 1..Len(chars) :
        /\ chars[dot] = "."
        /\ Len(chars) > 1
        /\ AllDigits(SubSeq(chars, 1, dot - 1))
        /\ AllDigits(SubSeq(chars, dot + 1, Len(chars)))

\* the float number is the one the string whole.fraction denotes: its digits
\* are those of the string up to the last non-zero digit of the fraction
IsFloatOf(number, chars) ==
    LET dot == CHOOSE i \in 1..Len(chars) : chars[i] = "."
        whole == SubSeq(chars, 1, dot - 1)
        fraction == SubSeq(chars, dot + 1, Len(chars))
    IN  /\ number.type = "float"
        /\ number.scale <= Len(fraction)
        /\ \A i \in (number.scale + 1)..Len(fraction) : fraction[i] = "0"
        /\ number.scale > 0 => fraction[number.scale] # "0"
        /\ Decimal(number.unscaled)
           = StripZeros(<<"0">> \o whole \o SubSeq(fraction, 1, number.scale))

\* C23: Revision keeps a numeric sequence unchanged, converts a string without
\* '.' to the integer it denotes ("100" gives 100) and a string with '.' to the
\* float it denotes ("100.1" gives 100.1), and rejects a string that denotes no
\* number, such as "BAD VALUE", by raising ValueError, so that no Revision
\* object is produced.
C23_RevisionSequence ==
    ~IsNone(revision) =>
        LET outcome == Val(revision)
            given == Val(sequence_arg)
        IN  /\ IsNone(sequence_arg) => outcome.ok
            /\ (~IsNone(sequence_arg) /\ IsNumber(given))
               => outcome.ok /\ outcome.value.sequence = given
            /\ (~IsNone(sequence_arg) /\ given.type = "str")
               => IF DenotesInt(given.chars)
                  THEN /\ outcome.ok
                       /\ outcome.value.sequence.type = "int"
                       /\ Decimal(outcome.value.sequence.unscaled) = StripZeros(given.chars)
                  ELSE IF DenotesFloat(given.chars)
                  THEN outcome.ok /\ IsFloatOf(outcome.value.sequence, given.chars)
                  ELSE ~outcome.ok /\ outcome.error.type = "ValueError"
            /\ sequence_arg = Some(PyStr(IntString))
               => outcome.ok /\ outcome.value.sequence = PyInt(100)
            /\ sequence_arg = Some(PyStr(FloatString))
               => outcome.ok /\ outcome.value.sequence = PyFloat(1001, 1)
            /\ sequence_arg = Some(PyStr(BadString)) => ~outcome.ok

\* "BAD VALUE" was handed to Revision and rejected
C23_Witness ==
    /\ ~IsNone(revision)
    /\ sequence_arg = Some(PyStr(BadString))
    /\ ~Val(revision).ok

\* the document's revision.sequence is a string that denotes no number
SequenceNotConvertible(doc) ==
    /\ "revision" \in DOMAIN doc
    /\ "sequence" \in DOMAIN doc.revision
    /\ ~IsNone(doc.revision.sequence)
    /\ Val(doc.revision.sequence).type = "str"
    /\ ~DenotesInt(Val(doc.revision.sequence).chars)
    /\ ~DenotesFloat(Val(doc.revision.sequence).chars)

\* C24: parse of a document whose revision.sequence is a string that is not
\* convertible to a number fails with ParseException, not with the raw
\* conversion error.
C24_BadSequenceIsParseException ==
    (ParsedDocument /\ SequenceNotConvertible(Document)) => ParseRaised("ParseException")

\* ------------------------------------------------------------------------
\* An I18nPack and the current locale
\* ------------------------------------------------------------------------

\* the most add_translation and set_translations calls made on the pack
MaxOps == 2

TranslationKeys == {"alpha", "beta"}

\* the locale arguments and the values of current_locale
LocaleArgs == {None, Some("default"), Some("ja_jp"), Some("fr_fr")}

\* the dicts handed to I18nPack and to set_translations
TranslationDicts ==
    {EmptyDict, [alpha |-> "apple"], [alpha |-> "ringo"],
     [alpha |-> "apple", beta |-> "banana"]}

\* an operation on the pack: its arguments, the pack and the locale it found,
\* and how it ended
Op(op, key, translation, locale, translations, before, outcome, result) ==
    [op |-> op, key |-> key, translation |-> translation, locale |-> locale,
     translations |-> translations, before |-> before,
     ok |-> outcome.ok, error |-> outcome.error, result |-> result]

I18nInit ==
    /\ NoFactoryYet({"public"})
    /\ ParserIdle
    /\ CollectionIdle
    /\ RevisionIdle
    /\ FieldParserIdle
    /\ pack \in {I18nPack(initialdata) :
                    initialdata \in {None} \cup {Some(d) : d \in TranslationDicts}}
    /\ current_locale \in LocaleArgs
    /\ last_op = None
    /\ nops = 0

\* the call pack.add_translation(key, translation, locale)
AddTranslation(key, translation, locale) ==
    /\ nops < MaxOps
    /\ nops' = nops + 1
    /\ pack' = add_translation(pack, key, translation, locale)
    /\ last_op' = Some(Op("add_translation", key, translation, locale, None, pack,
                          Ok(None), None))
    /\ UNCHANGED <<current_locale, factory_vars, construction_vars, parsing_vars,
                   collection_vars, revision_vars, field_vars>>

\* the call pack.set_translations(translations, locale)
SetTranslations(translations, locale) ==
    LET outcome == set_translations(pack, translations, locale)
    IN  /\ nops < MaxOps
        /\ nops' = nops + 1
        /\ pack' = IF outcome.ok THEN outcome.value ELSE pack
        /\ last_op' = Some(Op("set_translations", "", "", locale, translations, pack,
                              [outcome EXCEPT !.value = None], None))
        /\ UNCHANGED <<current_locale, factory_vars, construction_vars, parsing_vars,
                       collection_vars, revision_vars, field_vars>>

\* the assignment mothergeo.i18n.current_locale = locale
SetLocale(locale) ==
    /\ locale # current_locale
    /\ current_locale' = locale
    /\ UNCHANGED <<pack, last_op, nops, factory_vars, construction_vars, parsing_vars,
                   collection_vars, revision_vars, field_vars>>

\* the attribute access pack.<name>
GetAttr(name) ==
    /\ last_op' = Some(Op("__getattr__", name, "", current_locale, None, pack,
                          Ok(None), __getattr__(pack, name)))
    /\ UNCHANGED <<pack, current_locale, nops, factory_vars, construction_vars,
                   parsing_vars, collection_vars, revision_vars, field_vars>>

I18nNext ==
    \/ \E key \in TranslationKeys, translation \in {"apple", "ringo"},
          locale \in LocaleArgs : AddTranslation(key, translation, locale)
    \/ \E translations \in {None} \cup {Some(d) : d \in TranslationDicts},
          locale \in LocaleArgs : SetTranslations(translations, locale)
    \/ \E locale \in LocaleArgs : SetLocale(locale)
    \/ \E name \in TranslationKeys : GetAttr(name)

I18nSpec == I18nInit /\ [][I18nNext]_vars

\* the last operation on the pack
LastOp == Val(last_op)

\* the last operation on the pack was op and it returned
Did(op) == ~IsNone(last_op) /\ LastOp.op = op /\ LastOp.ok

\* the value of a key in a dict, or None
ValueIn(dict, key) == IF key \in DOMAIN dict THEN Some(dict[key]) ELSE None

\* the locale names an overlay rather than the defaults
NamesOverlay(locale) == ~IsNone(locale) /\ locale # Some("default")

\* the packs agree on the overlays of every locale but the one given
OtherOverlaysSame(before, after, locale) ==
    /\ DOMAIN before.translations \ {locale} = DOMAIN after.translations \ {locale}
    /\ \A l \in DOMAIN before.translations \ {locale} :
          before.translations[l] = after.translations[l]

C26_OverlayLeavesDefaults ==
    ((Did("add_translation") \/ Did("set_translations")) /\ NamesOverlay(LastOp.locale)) =>
        LET locale == Val(LastOp.locale)
            before == LastOp.before
        IN  /\ pack.data = before.data
            /\ OtherOverlaysSame(before, pack, locale)
            /\ locale \in DOMAIN pack.translations
            /\ LastOp.op = "add_translation"
               => ValueIn(pack.translations[locale].data, LastOp.key)
                  = Some(LastOp.translation)
            /\ current_locale = Some(locale)
               => \A key \in TranslationKeys :
                     __getattr__(pack, key) =
                        IF key \in DOMAIN pack.translations[locale].data
                        THEN Some(pack.translations[locale].data[key])
                        ELSE ValueIn(before.data, key)
            /\ IsNone(current_locale)
               => \A key \in TranslationKeys :
                     __getattr__(pack, key) = ValueIn(before.data, key)

\* a translation was added for ja_jp to a pack whose defaults hold a value of
\* the key and that holds an overlay of another locale, and the default locale
\* is active
C26_Witness ==
    /\ Did("add_translation")
    /\ LastOp.locale = Some("ja_jp")
    /\ LastOp.key \in DOMAIN LastOp.before.data
    /\ LastOp.before.data[LastOp.key] # LastOp.translation
    /\ "fr_fr" \in DOMAIN LastOp.before.translations
    /\ IsNone(current_locale)

\* C29: add_translation and set_translations agree on the pack a locale
\* names: locale None and locale 'default' both write to the default pack, any
\* other locale to the overlay of that locale; add_translation(key, value,
\* 'default') makes the lookup of key under the default locale return value,
\* as set_translations({key: value}, 'default') does.
C29_LocaleNamesSamePack ==
    /\ (Did("add_translation") /\ ~NamesOverlay(LastOp.locale))
       => /\ pack.data = With(LastOp.before.data, LastOp.key, LastOp.translation)
          /\ pack.translations = LastOp.before.translations
          /\ IsNone(current_locale)
             => __getattr__(pack, LastOp.key) = Some(LastOp.translation)
    /\ (Did("set_translations") /\ ~NamesOverlay(LastOp.locale))
       => /\ pack.data = Val(LastOp.translations)
          /\ pack.translations = LastOp.before.translations
    /\ (Did("add_translation") /\ NamesOverlay(LastOp.locale))
       => /\ pack.data = LastOp.before.data
          /\ ValueIn(pack.translations[Val(LastOp.locale)].data, LastOp.key)
             = Some(LastOp.translation)
    /\ (Did("set_translations") /\ NamesOverlay(LastOp.locale))
       => /\ pack.data = LastOp.before.data
          /\ pack.translations[Val(LastOp.locale)].data = Val(LastOp.translations)

\* the pack set_translations writes for the locale: the defaults or an overlay
TargetPack(locale) ==
    IF NamesOverlay(locale) THEN pack.translations[Val(locale)] ELSE pack

\* C30: set_translations replaces the target pack wholesale: after
\* set_translations(T, L) the overlay of L (the default pack when L is None or
\* 'default') holds exactly the keys of T with the values of T, so a key added
\* for L before and missing from T no longer resolves to its old value: under
\* locale L its lookup gives the default value or None.
C30_SetTranslationsReplaces ==
    Did("set_translations") =>
        /\ TargetPack(LastOp.locale).data = Val(LastOp.translations)
        /\ current_locale = LastOp.locale
           => \A key \in TranslationKeys \ DOMAIN Val(LastOp.translations) :
                 __getattr__(pack, key) =
                    IF NamesOverlay(LastOp.locale) THEN ValueIn(pack.data, key) ELSE None

\* ------------------------------------------------------------------------
\* Parsing one field object
\* ------------------------------------------------------------------------

\* an object with each of the keys given absent or present with TRUE
Flags(keys) == UNION {[present -> {TRUE}] : present \in SUBSET keys}

\* the source objects: requirement and analogs absent or present
SourceJsons ==
    {WithOptional(WithOptional(EmptyDict, "requirement", requirement), "analogs", analogs) :
        requirement \in {None, Some(Some("required"))},
        analogs \in {None, Some(Some(PyList(<<"street_nam?", "strnam">>)))}}

\* the nena objects: analog and required absent or present
NenaJsons ==
    {WithOptional(WithOptional(EmptyDict, "analog", analog), "required", required) :
        analog \in {None, Some(Some("TEST_NENA_ANALOG"))},
        required \in {None, Some(TRUE)}}

\* the field objects handed to _json_2_field_info: every optional item absent
\* or present, and the objects that lack one required key
FieldDocuments ==
    LET complete ==
            {WithOptional(WithOptional(WithOptional(WithOptional(WithOptional(
                 [name |-> "srcFullNam", type |-> "text", source |-> source,
                  target |-> target, i18n |-> [default |-> [friendlyName |-> "F"]]],
                 "unique", unique), "preferences", preferences), "domain", domain),
                 "usage", usage), "nena", nena) :
                source \in SourceJsons,
                target \in Flags({"calculated", "guaranteed"}),
                unique \in {None, Some(TRUE)},
                preferences \in {None, Some(Some([length |-> 200]))},
                domain \in {None, Some(Some(<<"a", "b">>))},
                usage \in {None} \cup {Some(u) : u \in Flags({"search", "display"})},
                nena \in {None} \cup {Some(n) : n \in NenaJsons}}
    IN  complete \cup {Without(d, k) : d \in {OwnFieldJson}, k \in FieldKeys}

FieldInit ==
    /\ NoFactoryYet({"public"})
    /\ ParserIdle
    /\ CollectionIdle
    /\ RevisionIdle
    /\ I18nIdle
    /\ field_json \in FieldDocuments
    /\ field_info = None

\* the call JsonModelInfoParser._json_2_field_info(jsobj)
ParseField ==
    /\ IsNone(field_info)
    /\ field_info' = Some(_json_2_field_info(field_json))
    /\ UNCHANGED <<field_json, factory_vars, construction_vars, parsing_vars,
                   collection_vars, revision_vars, i18n_vars>>

FieldNext == ParseField

FieldSpec == FieldInit /\ [][FieldNext]_vars

\* the field object holds every key the parser requires
HasRequiredKeys(jsobj) == FieldKeys \subseteq DOMAIN jsobj

\* the FieldInfo the parser returned
ParsedField == Val(field_info).value

\* the value of an optional item of an object: the default when the key is
\* absent, the value given when it is present
ItemOr(jsobj, key, default) == IF key \in DOMAIN jsobj THEN jsobj[key] ELSE default

\* the object at an optional key, or the empty object
ObjectAt(jsobj, key) == IF key \in DOMAIN jsobj THEN jsobj[key] ELSE EmptyDict

\* the set of the elements of a list
Elements(list) == {list[i] : i \in 1..Len(list)}

\* C27: parsing a field object substitutes the documented default for every
\* absent optional item and never fails for its absence: unique absent gives
\* false, preferences and domain absent give None, source.requirement absent
\* gives None, source.analogs absent gives an empty sequence,
\* target.calculated and target.guaranteed absent give false, usage.search and
\* usage.display absent give false, nena.analog absent gives None and
\* nena.required absent gives false; a value that is present is the value of
\* the FieldInfo (a requirement as the member it names, a domain as the set of
\* its elements).
C27_OptionalItemsDefault ==
    (~IsNone(field_info) /\ HasRequiredKeys(field_json)) =>
        /\ Val(field_info).ok
        /\ ParsedField.unique = ItemOr(field_json, "unique", FALSE)
        /\ ParsedField.preferences = ItemOr(field_json, "preferences", None)
        /\ ParsedField.domain =
              IF "domain" \in DOMAIN field_json
              THEN Some(Elements(Val(field_json.domain))) ELSE None
        /\ ParsedField.source.requirement =
              IF "requirement" \in DOMAIN field_json.source
              THEN Some(Upper(Val(field_json.source.requirement))) ELSE None
        /\ ParsedField.source.analogs =
              IF "analogs" \in DOMAIN field_json.source
              THEN Val(field_json.source.analogs).items ELSE <<>>
        /\ ParsedField.target.calculated = ItemOr(field_json.target, "calculated", FALSE)
        /\ ParsedField.target.guaranteed = ItemOr(field_json.target, "guaranteed", FALSE)
        /\ ParsedField.usage.search =
              ItemOr(ObjectAt(field_json, "usage"), "search", FALSE)
        /\ ParsedField.usage.display =
              ItemOr(ObjectAt(field_json, "usage"), "display", FALSE)
        /\ ParsedField.nena.analog = ItemOr(ObjectAt(field_json, "nena"), "analog", None)
        /\ ParsedField.nena.required =
              Some(ItemOr(ObjectAt(field_json, "nena"), "required", FALSE))

\* a field object without 'unique' whose nena object lacks 'required' was
\* parsed
C27_Witness ==
    /\ ~IsNone(field_info)
    /\ HasRequiredKeys(field_json)
    /\ "nena" \in DOMAIN field_json
    /\ "required" \notin DOMAIN field_json.nena
    /\ "unique" \notin DOMAIN field_json
    /\ Val(field_info).ok
    /\ ParsedField.nena.required = Some(FALSE)

====
